---------------------------- MODULE Spec2Model ----------------------------
(***************************************************************************)
(* A model of gpstk::PackedNavBits (core/lib/GNSSEph/PackedNavBits.cpp):   *)
(* a navigation message held as a vector<bool> of bit cells, a count of    *)
(* the bits used and the message's metadata, with the pack (add...),       *)
(* unpack (as...), structural and comparison operations on it.             *)
(*                                                                         *)
(* Numbers.  TLC's integers are 32 bits wide and the code works on 64-bit  *)
(* words and IEEE doubles, so a number is modelled by the set of the       *)
(* positions of its one bits: 5 is {0, 2}, 2^54 is {54}, 2.5 is {1, -1}.   *)
(* A uint64_t is a subset of 0..63, an int64_t is the same set read as     *)
(* two's complement, and a double is a sign and a magnitude whose one bits *)
(* span at most 53 positions.  The build modelled is LP64: long and        *)
(* unsigned long are 64 bits wide.                                         *)
(***************************************************************************)
EXTENDS Integers, FiniteSets, Sequences, TLC

\* uint64_t, int64_t, unsigned long, long: the width of an integer word.
WordBits == 64

\* double: the width of the significand of an IEEE-754 binary64.
MantBits == 53

\* bits(900): the number of cells every constructor allocates.
Capacity == 900

---------------------------------------------------------------------------
(* Arithmetic on magnitudes: finite sets of bit positions.                 *)

Min(S) == CHOOSE x \in S : \A y \in S : x <= y

Max(S) == 0 - Min({0 - x : x \in S})

SymDiff(a, b) == (a \ b) \cup (b \ a)

\* a < b, as magnitudes: b has a bit that a lacks, above every bit that a
\* has and b lacks
MagLess(a, b) == \E i \in b \ a : \A j \in a \ b : j < i

MagLeq(a, b) == a = b \/ MagLess(a, b)

\* a * 2^k
Shift(a, k) == {i + k : i \in a}

\* a + b: the positions where one of the two has a bit, plus the carries,
\* which the positions where both have a bit send one position up
RECURSIVE MagAdd(_, _)
MagAdd(a, b) ==
    IF a \cap b = {} THEN a \cup b
    ELSE MagAdd(SymDiff(a, b), Shift(a \cap b, 1))

\* a - b, for b <= a: the positions where one of the two has a bit, minus the
\* borrows, which the positions where only b has a bit take one position up
RECURSIVE MagSub(_, _)
MagSub(a, b) ==
    IF b = {} THEN a
    ELSE MagSub(SymDiff(a, b), Shift(b \ a, 1))

\* the magnitude of a natural number below 2^31
RECURSIVE FromNat(_)
FromNat(n) ==
    IF n = 0 THEN {}
    ELSE Shift(FromNat(n \div 2), 1) \cup (IF n % 2 = 1 THEN {0} ELSE {})

\* a * m, for a natural number m
RECURSIVE MagMul(_, _)
MagMul(a, m) ==
    IF m = 0 \/ a = {} THEN {}
    ELSE MagAdd(IF m % 2 = 1 THEN a ELSE {}, Shift(MagMul(a, m \div 2), 1))

\* floor(a / 2^i) modulo d for a magnitude a below 2^(top+1), by long
\* division from bit top of a down
RECURSIVE Remainder(_, _, _, _)
Remainder(a, d, i, top) ==
    IF i > top THEN 0
    ELSE (2 * Remainder(a, d, i + 1, top) + (IF i \in a THEN 1 ELSE 0)) % d

\* a / d truncated, for a natural number d >= 1 and a whole magnitude a:
\* long division brings down bit i of a onto the remainder of what is above
\* it, and bit i of the quotient is one when d goes into that
MagDiv(a, d) ==
    IF d = 1 \/ a = {} THEN a
    ELSE LET top == Max(a)
         IN  {i \in 0 .. top :
                 2 * Remainder(a, d, i + 1, top) + (IF i \in a THEN 1 ELSE 0) >= d}

---------------------------------------------------------------------------
(* 64-bit words.                                                           *)

WordPos == 0 .. (WordBits - 1)

\* the value modulo 2^64
Wrap(a) == a \cap WordPos

SignBit == WordBits - 1

\* -w in two's complement: invert and add one, which keeps the lowest one
\* bit and what is below it and inverts what is above it
WordNeg(w) ==
    IF w = {} THEN {}
    ELSE LET low == Min(w)
         IN  {i \in WordPos : i = low \/ (i > low /\ i \notin w)}

IsNegative(w) == SignBit \in w

\* |w| of an int64_t, as a magnitude (2^63 for INT64_MIN)
WordAbs(w) == IF IsNegative(w) THEN (IF w = {SignBit} THEN w ELSE WordNeg(w)) ELSE w

\* a < b as int64_t
SignedLess(a, b) ==
    IF IsNegative(a) # IsNegative(b) THEN IsNegative(a) ELSE MagLess(a, b)

\* the int64_t of sign neg and magnitude mag <= 2^63
ToSigned(neg, mag) == IF neg THEN WordNeg(Wrap(mag)) ELSE Wrap(mag)

INT64_MIN == {SignBit}

INT64_MAX == WordPos \ {SignBit}

UINT64_MAX == WordPos

---------------------------------------------------------------------------
(* IEEE doubles: [neg, mag], the magnitude a set of bit positions spanning *)
(* at most MantBits positions.  The exponents the model uses stay far from *)
(* the overflow and underflow thresholds of the format.                    *)

\* the magnitude rounded to MantBits significant bits, to nearest, ties to even
RoundNearest(mag) ==
    IF mag = {} \/ Max(mag) - Min(mag) < MantBits THEN mag
    ELSE LET p      == Max(mag) - (MantBits - 1)
             kept   == {i \in mag : i >= p}
             guard  == (p - 1) \in mag
             sticky == \E i \in mag : i < p - 1
         IN  IF guard /\ (sticky \/ p \in mag) THEN MagAdd(kept, {p}) ELSE kept

Double(neg, mag) == [neg |-> neg /\ mag # {}, mag |-> mag]

\* pow(static_cast<double>(2), k)
pow2(k) == Double(FALSE, {k})

DoubleZero == Double(FALSE, {})

DoubleHalf == Double(FALSE, {-1})

DoubleOne == Double(FALSE, {0})

\* x + y in double arithmetic
DoubleAdd(x, y) ==
    IF x.neg = y.neg THEN Double(x.neg, RoundNearest(MagAdd(x.mag, y.mag)))
    ELSE IF MagLeq(y.mag, x.mag) THEN Double(x.neg, RoundNearest(MagSub(x.mag, y.mag)))
    ELSE Double(y.neg, RoundNearest(MagSub(y.mag, x.mag)))

DoubleNeg(x) == Double(~x.neg, x.mag)

\* x - y in double arithmetic
DoubleSub(x, y) == DoubleAdd(x, DoubleNeg(y))

\* x * 2^k: exact
DoubleScale(x, k) == Double(x.neg, Shift(x.mag, k))

\* x < y
DoubleLess(x, y) ==
    IF x.neg # y.neg THEN x.neg
    ELSE IF x.neg THEN MagLess(y.mag, x.mag) ELSE MagLess(x.mag, y.mag)

\* the whole part of a magnitude: truncation toward zero
Trunc(mag) == {i \in mag : i >= 0}

\* (double) of an int64_t
FromInt64(w) == Double(IsNegative(w), RoundNearest(WordAbs(w)))

\* (double) of a uint64_t
FromUint64(w) == Double(FALSE, RoundNearest(w))

\* (int64_t) of a double: the values a build can produce.  A value whose whole
\* part is not an int64_t is undefined behaviour: cvttsd2si (x86-64) gives
\* INT64_MIN, a saturating conversion (AArch64) gives the nearest bound.
ToInt64(x) ==
    LET t == Trunc(x.mag)
    IN  IF x.neg
        THEN IF MagLeq(t, INT64_MIN) THEN {ToSigned(TRUE, t)} ELSE {INT64_MIN}
        ELSE IF MagLeq(t, INT64_MAX) THEN {ToSigned(FALSE, t)}
             ELSE {INT64_MIN, INT64_MAX}

\* (uint64_t) of a double: the values a build can produce.  Undefined for a
\* whole part below 0 or above 2^64-1: x86-64 converts through int64_t (a
\* negative value wraps, a value from 2^64 gives 0), AArch64 saturates.
ToUint64(x) ==
    LET t == Trunc(x.mag)
    IN  IF t = {} THEN {{}}
        ELSE IF x.neg
        THEN IF MagLeq(t, INT64_MIN) THEN {WordNeg(Wrap(t)), {}} ELSE {INT64_MIN, {}}
        ELSE IF MagLeq(t, UINT64_MAX) THEN {t}
             ELSE {{}, UINT64_MAX}

---------------------------------------------------------------------------
(* The state: the PackedNavBits objects of the program, a record of the    *)
(* last mutating call and of the last observing call with what each        *)
(* returned, and the number of mutating calls made.  bits, the             *)
(* vector<bool>, is [size, ones]: bits.size() and the set of the indices i *)
(* below it with bits[i] true.                                             *)

VARIABLES pnb, last, out, calls

vars == <<pnb, last, out, calls>>

Objs == {"a", "b", "c"}

\* an ObsID: an observation type, a carrier band and a tracking code, each
\* of which may be the wildcard (otAny, cbAny, tcAny)
ObsID(type, band, code) == [type |-> type, band |-> band, code |-> code]

\* the ObsID of a C/A code range observation on L1
RangeL1CA == ObsID("otRange", "cbL1", "tcCA")

\* PackedNavBits::PackedNavBits(): the default constructor
PackedNavBits ==
    [satSys       |-> 0,
     obsID        |-> ObsID("otUnknown", "cbUnknown", "tcUnknown"),
     navID        |-> 0,
     rxID         |-> "",
     transmitTime |-> 0,
     parityStatus |-> "psUnknown",
     xMitCoerced  |-> FALSE,
     bits         |-> [size |-> Capacity, ones |-> {}],
     bits_used    |-> 0]

\* PackedNavBits::PackedNavBits(satSysArg, obsIDArg, navIDArg, rxString,
\* transmitTimeArg): the constructor that is given the metadata
PackedNavBitsOf(satSysArg, obsIDArg, navIDArg, rxString, transmitTimeArg) ==
    [PackedNavBits EXCEPT !.satSys       = satSysArg,
                          !.obsID        = obsIDArg,
                          !.navID        = navIDArg,
                          !.rxID         = rxString,
                          !.transmitTime = transmitTimeArg]

\* whether the cells [lo, lo+n) all exist: 0 <= lo and lo+n <= bits.size()
InStorage(p, lo, n) == lo >= 0 /\ lo + n <= p.bits.size

\* the cells [lo, lo+n) read MSB-first as an n-bit number
Field(p, lo, n) == {lo + n - 1 - i : i \in {j \in p.bits.ones : lo <= j /\ j < lo + n}}

\* the cells a value of n bits sets when written MSB-first from cell lo
Cells(value, lo, n) == {lo + n - 1 - k : k \in {j \in value : j < n}}

\* a text: its tokens, the runs of characters between the separators
\* (space, tab, comma), and whether a separator follows the last one.  A
\* token is a prefix ("0x", "0X" or none), its digits after the prefix, each
\* by its value, and whether a newline ends it.
Token(prefix, digits, newline) ==
    [prefix |-> prefix, digits |-> digits, newline |-> newline]

Text(tokens, trail) == [tokens |-> tokens, trail |-> trail]

NoText == Text(<<>>, FALSE)

\* the record of a call: what was called on which object with which
\* arguments (other: the object passed by reference, the object itself when
\* there is none), the object before the call, and how the call ended
\* (err: "none", "InvalidParameter" for a throw, "crash" for a process that
\* died of an access outside the storage; oob: such an access was made)
Called(op, o, value, dvalue, numBits, scale) ==
    [op      |-> op,
     obj     |-> o,
     other   |-> o,
     err     |-> "none",
     oob     |-> FALSE,
     value   |-> value,
     dvalue  |-> dvalue,
     numBits |-> numBits,
     scale   |-> scale,
     start   |-> pnb[o].bits_used,
     endBit  |-> -1,
     chars   |-> <<>>,
     text    |-> NoText,
     pre     |-> pnb[o]]

NoCall ==
    [op |-> "none", obj |-> "a", other |-> "a", err |-> "none", oob |-> FALSE,
     value |-> {}, dvalue |-> DoubleZero, numBits |-> 0, scale |-> 0, start |-> 0,
     endBit |-> -1, chars |-> <<>>, text |-> NoText, pre |-> PackedNavBits]

\* the record of an observing call and of what it returned: ret for an
\* integer, dret for a double, bret for a bool, sret for a string (the
\* sequence of its characters' codes), text for a text written to a stream
Observed(op, o, other, startBit, numBits, scale) ==
    [op      |-> op,
     obj     |-> o,
     other   |-> other,
     err     |-> "none",
     oob     |-> FALSE,
     start   |-> startBit,
     numBits |-> numBits,
     scale   |-> scale,
     endBit  |-> -1,
     flagBits |-> {},
     ret     |-> {},
     dret    |-> DoubleZero,
     bret    |-> FALSE,
     sret    |-> <<>>,
     text    |-> NoText]

NoOut == Observed("none", "a", "a", 0, 0, 0)

\* the process is alive: no call has crashed it
Running == last.err # "crash" /\ out.err # "crash"

Init ==
    /\ pnb = [o \in Objs |-> PackedNavBits]
    /\ last = NoCall
    /\ out = NoOut
    /\ calls = 0

\* Throws with the fault of a throw that comes after bits_used has moved
ThrowsAfterAppending(rec) ==
    /\ pnb' = [pnb EXCEPT ![rec.obj].bits_used = @ + rec.numBits]
    /\ last' = [rec EXCEPT !.err = "InvalidParameter"]
    /\ out' = NoOut
    /\ calls' = calls + 1

\* a mutating call that throws InvalidParameter before changing anything
Throws(rec) ==
    /\ pnb' = pnb
    /\ last' = [rec EXCEPT !.err = "InvalidParameter"]
    /\ out' = NoOut
    /\ calls' = calls + 1

\* a mutating call that throws InvalidParameter having made object o newp
ThrowsHaving(rec, newp, oob) ==
    /\ pnb' = [pnb EXCEPT ![rec.obj] = newp]
    /\ last' = [rec EXCEPT !.err = "InvalidParameter", !.oob = oob]
    /\ out' = NoOut
    /\ calls' = calls + 1

\* a mutating call that returns, leaving object o as newp
Returns(rec, newp, oob) ==
    /\ pnb' = [pnb EXCEPT ![rec.obj] = newp]
    /\ last' = [rec EXCEPT !.oob = oob]
    /\ out' = NoOut
    /\ calls' = calls + 1

\* a call killed by its access outside the storage
Crashes(rec) ==
    /\ pnb' = pnb
    /\ last' = [rec EXCEPT !.err = "crash", !.oob = TRUE]
    /\ out' = NoOut
    /\ calls' = calls + 1

---------------------------------------------------------------------------
(* Packing.                                                                *)

\* PackedNavBits::addUint64_t: the object after value's numBits low bits are
\* written MSB-first from cell bits_used.  There is no check against
\* bits.size(): a write to a cell that does not exist is undefined behaviour,
\* and here it lands outside the vector and is lost.
addUint64_t(p, value, numBits) ==
    LET ndx     == p.bits_used
        written == ndx .. (ndx + numBits - 1)
        stored  == (p.bits.ones \ written) \cup Cells(value, ndx, numBits)
    IN  [p EXCEPT !.bits.ones = {i \in stored : 0 <= i /\ i < p.bits.size},
                  !.bits_used = ndx + numBits]

\* the call of addUint64_t that ends a pack: it returns, or, when it indexes
\* outside the storage, may instead kill the process
Appends(rec, value, numBits) ==
    LET p   == pnb[rec.obj]
        oob == ~InStorage(p, p.bits_used, numBits)
    IN  \/ Returns(rec, addUint64_t(p, value, numBits), oob)
        \/ oob /\ Crashes(rec)

\* uint64_t test = pow(static_cast<double>(2),numBits) - 1: the values a
\* build can give test
UnsignedTest(numBits) == ToUint64(DoubleSub(pow2(numBits), DoubleOne))

\* int64_t test = pow(static_cast<double>(2),numBits-1) - 1
SignedTest(numBits) == ToInt64(DoubleSub(pow2(numBits - 1), DoubleOne))

\* ( out > test ) || ( out < -( test + 1 ) ), in int64_t arithmetic
SignedOutOfRange(outv, test) ==
    \/ SignedLess(test, outv)
    \/ SignedLess(outv, WordNeg(Wrap(MagAdd(test, {0}))))

\* out /= scale for an int64_t: the quotient truncated toward zero
SignedDiv(value, scale) ==
    ToSigned(IsNegative(value), MagDiv(WordAbs(value), scale))

\* PackedNavBits::addUnsignedLong
addUnsignedLong(o, value, numBits, scale) ==
    LET rec  == Called("addUnsignedLong", o, value, DoubleZero, numBits, scale)
        outv == MagDiv(value, scale)
    IN  /\ Running
        /\ \E test \in UnsignedTest(numBits) :
              IF MagLess(test, outv) THEN Throws(rec)
              ELSE Appends(rec, outv, numBits)

\* PackedNavBits::addLong
addLong(o, value, numBits, scale) ==
    LET rec  == Called("addLong", o, value, DoubleZero, numBits, scale)
        outv == SignedDiv(value, scale)
    IN  /\ Running
        /\ \E test \in SignedTest(numBits) :
              IF SignedOutOfRange(outv, test) THEN Throws(rec)
              ELSE Appends(rec, outv, numBits)

\* PackedNavBits::ScaleValue
ScaleValue(value, power2) ==
    LET temp == DoubleScale(value, -power2)
    IN  IF ~temp.neg THEN DoubleAdd(temp, DoubleHalf) ELSE DoubleSub(temp, DoubleHalf)

\* PackedNavBits::addUnsignedDouble
addUnsignedDouble(o, value, numBits, power2) ==
    LET rec == Called("addUnsignedDouble", o, {}, value, numBits, power2)
    IN  /\ Running
        /\ \E outv \in ToUint64(ScaleValue(value, power2)) :
           \E test \in UnsignedTest(numBits) :
              IF MagLess(test, outv) THEN Throws(rec)
              ELSE Appends(rec, outv, numBits)

\* PackedNavBits::addSignedDouble
addSignedDouble(o, value, numBits, power2) ==
    LET rec == Called("addSignedDouble", o, {}, value, numBits, power2)
    IN  /\ Running
        /\ \E outv \in ToInt64(ScaleValue(value, power2)) :
           \E test \in SignedTest(numBits) :
              IF SignedOutOfRange(outv, test) THEN Throws(rec)
              ELSE Appends(rec, outv, numBits)

\* PackedNavBits::addDoubleSemiCircles.  An angle is modelled by its count of
\* semicircles, semi, the angle being semi*PI radians: Radians/PI is semi for
\* the angles the model draws (0 and plus or minus a power of two times PI,
\* whose products and quotients by PI are exact).
addDoubleSemiCircles(o, semi, numBits, power2) ==
    LET rec == Called("addDoubleSemiCircles", o, {}, semi, numBits, power2)
    IN  /\ Running
        /\ \E outv \in ToInt64(ScaleValue(semi, power2)) :
           \E test \in SignedTest(numBits) :
              IF SignedOutOfRange(outv, test) THEN Throws(rec)
              ELSE Appends(rec, outv, numBits)

\* PackedNavBits::reset_num_bits
reset_num_bits(o, new_bits_used) ==
    /\ Running
    /\ Returns(Called("reset_num_bits", o, {}, DoubleZero, new_bits_used, 0),
               [pnb[o] EXCEPT !.bits_used = new_bits_used], FALSE)

\* vector<bool>::resize(n): cells from n on are dropped, new cells are false
resize(bits, n) == [size |-> n, ones |-> {i \in bits.ones : i < n}]

\* PackedNavBits::trimsize
trimsize(o) ==
    /\ Running
    /\ Returns(Called("trimsize", o, {}, DoubleZero, 0, 0),
               [pnb[o] EXCEPT !.bits = resize(@, pnb[o].bits_used)], FALSE)

---------------------------------------------------------------------------
(* Unpacking.                                                              *)

\* an observing call that returns rec
Observes(rec) ==
    /\ out' = rec
    /\ UNCHANGED <<pnb, last, calls>>

\* PackedNavBits::asUint64_t: whether it throws ("Requested bits not
\* present": stop > bits.size()), and what it returns otherwise
asUint64_t_throws(p, startBit, numBits) == startBit + numBits > p.bits.size

\* asUint64_t with the fault of reading the cells LSB-first
asUint64_t_lsb_first(p, startBit, numBits) ==
    Wrap({i - startBit : i \in {j \in p.bits.ones : startBit <= j /\ j < startBit + numBits}})

asUint64_t(p, startBit, numBits) == Wrap(Field(p, startBit, numBits))

\* s <<= n on an int64_t, as every two's-complement build shifts
ShiftLeft(w, n) == Wrap(Shift(w, n))

\* s >>= n on an int64_t: the arithmetic shift
ShiftRight(w, n) ==
    {i \in Shift(w, -n) : i >= 0}
        \cup (IF IsNegative(w) THEN (WordBits - n) .. (WordBits - 1) ELSE {})

\* PackedNavBits::SignExtend
SignExtend(p, startBit, numBits) ==
    LET u == asUint64_t(p, startBit, numBits)
    IN  ShiftRight(ShiftLeft(u, WordBits - numBits), WordBits - numBits)

\* s * scale on an int64_t, wrapping
SignedMul(w, scale) == ToSigned(IsNegative(w), MagMul(WordAbs(w), scale))

\* a decoding call of object o: it throws when asUint64_t does, and returns
\* the record otherwise
Decodes(rec, o, startBit, numBits) ==
    /\ Running
    /\ IF asUint64_t_throws(pnb[o], startBit, numBits)
       THEN Observes([rec EXCEPT !.err = "InvalidParameter"])
       ELSE Observes(rec)

\* PackedNavBits::asUint64_t, called
asUint64(o, startBit, numBits) ==
    Decodes([Observed("asUint64_t", o, o, startBit, numBits, 1)
                EXCEPT !.ret = asUint64_t(pnb[o], startBit, numBits)],
            o, startBit, numBits)

\* PackedNavBits::SignExtend, called
signExtend(o, startBit, numBits) ==
    Decodes([Observed("SignExtend", o, o, startBit, numBits, 1)
                EXCEPT !.ret = SignExtend(pnb[o], startBit, numBits)],
            o, startBit, numBits)

\* PackedNavBits::asUnsignedLong
asUnsignedLong(o, startBit, numBits, scale) ==
    Decodes([Observed("asUnsignedLong", o, o, startBit, numBits, scale)
                EXCEPT !.ret = Wrap(MagMul(asUint64_t(pnb[o], startBit, numBits), scale))],
            o, startBit, numBits)

\* PackedNavBits::asLong
asLong(o, startBit, numBits, scale) ==
    Decodes([Observed("asLong", o, o, startBit, numBits, scale)
                EXCEPT !.ret = SignedMul(SignExtend(pnb[o], startBit, numBits), scale)],
            o, startBit, numBits)

\* PackedNavBits::asUnsignedDouble
asUnsignedDouble(o, startBit, numBits, power2) ==
    Decodes([Observed("asUnsignedDouble", o, o, startBit, numBits, power2)
                EXCEPT !.dret = DoubleScale(FromUint64(asUint64_t(pnb[o], startBit, numBits)),
                                            power2)],
            o, startBit, numBits)

\* PackedNavBits::asSignedDouble, the value it returns
asSignedDouble_value(p, startBit, numBits, power2) ==
    DoubleScale(FromInt64(SignExtend(p, startBit, numBits)), power2)

\* PackedNavBits::asSignedDouble
asSignedDouble(o, startBit, numBits, power2) ==
    Decodes([Observed("asSignedDouble", o, o, startBit, numBits, power2)
                EXCEPT !.dret = asSignedDouble_value(pnb[o], startBit, numBits, power2)],
            o, startBit, numBits)

\* PackedNavBits::asDoubleSemiCircles: drad*PI, returned as the count of
\* semicircles drad
asDoubleSemiCircles(o, startBit, numBits, power2) ==
    Decodes([Observed("asDoubleSemiCircles", o, o, startBit, numBits, power2)
                EXCEPT !.dret = asSignedDouble_value(pnb[o], startBit, numBits, power2)],
            o, startBit, numBits)

\* PackedNavBits::asBool: bits[bitNum] with no check at all.  A bitNum from
\* bits.size() on reads outside the storage: the read gives either value, or
\* kills the process.
asBool(o, bitNum) ==
    LET rec == Observed("asBool", o, o, bitNum, 1, 1)
        p   == pnb[o]
    IN  /\ Running
        /\ IF InStorage(p, bitNum, 1)
           THEN Observes([rec EXCEPT !.bret = bitNum \in p.bits.ones])
           ELSE \/ \E b \in BOOLEAN : Observes([rec EXCEPT !.bret = b, !.oob = TRUE])
                \/ Observes([rec EXCEPT !.err = "crash", !.oob = TRUE])

\* ulong <<= numBits[i]; ulong |= temp with the fault of no shift
orUnshifted(acc, temp, numBits) == acc \cup temp

\* ulong <<= numBits[i]; ulong |= temp (and the same on the int64_t s)
shiftOr(acc, temp, numBits) == ShiftLeft(acc, numBits) \cup temp

\* the loop of the split unpack from its i-th range (counted from 1) on
RECURSIVE splitLoop(_, _, _, _, _)
splitLoop(p, startBits, numBits, i, acc) ==
    IF i > Len(startBits) THEN acc
    ELSE splitLoop(p, startBits, numBits, i + 1,
                   shiftOr(acc, asUint64_t(p, startBits[i], numBits[i]), numBits[i]))

\* a split decoding call of object o: it throws when asUint64_t does for one
\* of the ranges, and returns the record otherwise
DecodesSplit(rec, o, startBits, numBits) ==
    /\ Running
    /\ IF \E i \in 1 .. Len(startBits) :
             asUint64_t_throws(pnb[o], startBits[i], numBits[i])
       THEN Observes([rec EXCEPT !.err = "InvalidParameter"])
       ELSE Observes(rec)

\* PackedNavBits::asUnsignedLong(startBits, numBits, len, scale), the arrays
\* being sequences of len >= 1 elements
asUnsignedLongSplit(o, startBits, numBits, scale) ==
    LET ulong == splitLoop(pnb[o], startBits, numBits, 2,
                           asUint64_t(pnb[o], startBits[1], numBits[1]))
    IN  DecodesSplit([Observed("asUnsignedLong[]", o, o, startBits, numBits, scale)
                         EXCEPT !.ret = Wrap(MagMul(ulong, scale))],
                     o, startBits, numBits)

\* PackedNavBits::asLong(startBits, numBits, len, scale)
asLongSplit(o, startBits, numBits, scale) ==
    LET s == splitLoop(pnb[o], startBits, numBits, 2,
                       SignExtend(pnb[o], startBits[1], numBits[1]))
    IN  DecodesSplit([Observed("asLong[]", o, o, startBits, numBits, scale)
                         EXCEPT !.ret = SignedMul(s, scale)],
                     o, startBits, numBits)

---------------------------------------------------------------------------
(* Structural operations, metadata and comparison.                         *)

\* PackedNavBits::clearBits
clearBits(o) ==
    /\ Running
    /\ Returns(Called("clearBits", o, {}, DoubleZero, 0, 0),
               [pnb[o] EXCEPT !.bits = [size |-> 0, ones |-> {}], !.bits_used = 0],
               FALSE)

\* the loop of PackedNavBits::invert: bits[i] = 1 - bits[i] for every i
\* below bits.size()
invertBits(p) == [p EXCEPT !.bits.ones = (0 .. (p.bits.size - 1)) \ @]

\* PackedNavBits::invert
invert(o) ==
    /\ Running
    /\ Returns(Called("invert", o, {}, DoubleZero, 0, 0), invertBits(pnb[o]), FALSE)

\* PackedNavBits::addPackedNavBits, the object after it: bits_used grows by
\* right.bits_used, bits is resized to it (grown or cut), and right's cells
\* are copied behind the old ones.  There is no check against the capacity.
addPackedNavBitsTo(p, right) ==
    LET old_bits_used == p.bits_used
        new_bits_used == old_bits_used + right.bits_used
        resized       == resize(p.bits, new_bits_used)
        copied        == old_bits_used .. (new_bits_used - 1)
        from          == {i + old_bits_used :
                             i \in {j \in right.bits.ones : j < right.bits_used}}
    IN  [p EXCEPT !.bits_used = new_bits_used,
                  !.bits = [size |-> new_bits_used,
                            ones |-> (resized.ones \ copied) \cup from]]

\* PackedNavBits::addPackedNavBits, called with another object whose used
\* bits are all in its storage (right.bits[i] is read for i < right.bits_used)
addPackedNavBits(o, other) ==
    /\ Running
    /\ other # o
    /\ InStorage(pnb[other], 0, pnb[other].bits_used)
    /\ Returns(Called("addPackedNavBits", o, {}, DoubleZero, pnb[other].bits_used, 0),
               addPackedNavBitsTo(pnb[o], pnb[other]), FALSE)

\* the loop of insertUnsignedLong with the fault of moving bits_used as the
\* loop of addUint64_t does
insertBitsAppending(p, value, startBit, numBits) ==
    LET written == startBit .. (startBit + numBits - 1)
        stored  == (p.bits.ones \ written) \cup Cells(value, startBit, numBits)
    IN  [p EXCEPT !.bits.ones = {i \in stored : 0 <= i /\ i < p.bits.size},
                  !.bits_used = @ + numBits]

\* PackedNavBits::insertUnsignedLong, the object after its loop: value's
\* numBits low bits are written MSB-first from cell startBit, with no check
\* against bits.size(); a write to a cell that does not exist is lost
insertBits(p, value, startBit, numBits) ==
    LET written == startBit .. (startBit + numBits - 1)
        stored  == (p.bits.ones \ written) \cup Cells(value, startBit, numBits)
    IN  [p EXCEPT !.bits.ones = {i \in stored : 0 <= i /\ i < p.bits.size}]

\* PackedNavBits::insertUnsignedLong
insertUnsignedLong(o, value, startBit, numBits, scale) ==
    LET rec  == [Called("insertUnsignedLong", o, value, DoubleZero, numBits, scale)
                    EXCEPT !.start = startBit]
        p    == pnb[o]
        outv == MagDiv(value, scale)
        oob  == ~InStorage(p, startBit, numBits)
    IN  /\ Running
        /\ IF startBit + numBits > p.bits_used THEN Throws(rec)
           ELSE \E test \in UnsignedTest(numBits) :
                   IF MagLess(test, outv) THEN Throws(rec)
                   ELSE \/ Returns(rec, insertBits(p, outv, startBit, numBits), oob)
                        \/ oob /\ Crashes(rec)

\* an object constructed anew with the metadata, in the place of object o
construct(o, satSysArg, obsIDArg, navIDArg, rxString, transmitTimeArg) ==
    /\ Running
    /\ Returns(Called("PackedNavBits", o, {}, DoubleZero, 0, 0),
               PackedNavBitsOf(satSysArg, obsIDArg, navIDArg, rxString, transmitTimeArg),
               FALSE)

\* PackedNavBits::setSatID
setSatID(o, satSysArg) ==
    /\ Running
    /\ Returns(Called("setSatID", o, {}, DoubleZero, 0, 0),
               [pnb[o] EXCEPT !.satSys = satSysArg], FALSE)

\* PackedNavBits::setObsID
setObsID(o, obsIDArg) ==
    /\ Running
    /\ Returns(Called("setObsID", o, {}, DoubleZero, 0, 0),
               [pnb[o] EXCEPT !.obsID = obsIDArg], FALSE)

\* PackedNavBits::setNavID
setNavID(o, navIDArg) ==
    /\ Running
    /\ Returns(Called("setNavID", o, {}, DoubleZero, 0, 0),
               [pnb[o] EXCEPT !.navID = navIDArg], FALSE)

\* PackedNavBits::setRxID
setRxID(o, rxString) ==
    /\ Running
    /\ Returns(Called("setRxID", o, {}, DoubleZero, 0, 0),
               [pnb[o] EXCEPT !.rxID = rxString], FALSE)

\* PackedNavBits::setTime
setTime(o, TransmitTimeArg) ==
    /\ Running
    /\ Returns(Called("setTime", o, {}, DoubleZero, 0, 0),
               [pnb[o] EXCEPT !.transmitTime = TransmitTimeArg], FALSE)

\* operator< with the fault of returning true when no cell differs
lessThanOrEqual(left, right) ==
    IF left.bits.size # right.bits.size
    THEN left.bits.size < right.bits.size
    ELSE LET differ == SymDiff(left.bits.ones, right.bits.ones)
         IN  differ = {} \/ Min(differ) \in right.bits.ones

\* PackedNavBits::operator<: by bits.size() when the sizes differ, and
\* otherwise by the first cell below bits.size() where the two differ
lessThan(left, right) ==
    IF left.bits.size # right.bits.size
    THEN left.bits.size < right.bits.size
    ELSE LET differ == SymDiff(left.bits.ones, right.bits.ones)
         IN  differ # {} /\ Min(differ) \in right.bits.ones

\* PackedNavBits::operator<, called
operatorLess(o, other) ==
    /\ Running
    /\ Observes([Observed("operator<", o, other, 0, 0, 0)
                    EXCEPT !.bret = lessThan(pnb[o], pnb[other])])

\* the cells matchBits compares: endBit is moved to bits.size()-1 when it is
\* -1 or not below bits.size(), startBit to 0 when negative and then to
\* bits.size()-1 when not below bits.size() (both are short, so that with
\* bits.size() zero each becomes -1)
matchBitsRange(left, startBitA, endBitA) ==
    LET size     == left.bits.size
        endBit   == IF endBitA = -1 \/ endBitA >= size THEN size - 1 ELSE endBitA
        fromZero == IF startBitA < 0 THEN 0 ELSE startBitA
        startBit == IF fromZero >= size THEN size - 1 ELSE fromZero
    IN  startBit .. endBit

\* PackedNavBits::matchBits, what it returns when every cell it reads exists:
\* false when the two bits.size() differ, and otherwise whether the two
\* agree on every cell of the range
matchBits(left, right, startBitA, endBitA) ==
    /\ left.bits.size = right.bits.size
    /\ \A i \in matchBitsRange(left, startBitA, endBitA) :
          (i \in left.bits.ones) <=> (i \in right.bits.ones)

\* PackedNavBits::matchBits, called.  A cell of the range that does not exist
\* (cell -1 of two empty storages) is read all the same: undefined
\* behaviour, which returns either answer or kills the process.
matchBitsCalled(o, other, startBitA, endBitA) ==
    LET rec   == [Observed("matchBits", o, other, startBitA, 0, 0)
                     EXCEPT !.endBit = endBitA]
        left  == pnb[o]
        right == pnb[other]
        oob   == /\ left.bits.size = right.bits.size
                 /\ \E i \in matchBitsRange(left, startBitA, endBitA) :
                       i < 0 \/ i >= left.bits.size
    IN  /\ Running
        /\ IF oob
           THEN \/ \E b \in BOOLEAN : Observes([rec EXCEPT !.bret = b, !.oob = TRUE])
                \/ Observes([rec EXCEPT !.err = "crash", !.oob = TRUE])
           ELSE Observes([rec EXCEPT !.bret = matchBits(left, right, startBitA, endBitA)])

\* the flags of matchMetaData: mmTIME, mmSAT, mmOBS, mmRX, mmNAV
MatchFlags == {"mmTIME", "mmSAT", "mmOBS", "mmRX", "mmNAV"}

\* transmitTime is counted in ticks of 0.1 ms: the 0.001 s of matchMetaData
TimeTolerance == 10

\* ObsID::operator==: each field is equal, or is the wildcard on one side
ObsIDEqual(left, right) ==
    LET ot == left.type = "otAny" \/ right.type = "otAny" \/ left.type = right.type
        cb == left.band = "cbAny" \/ right.band = "cbAny" \/ left.band = right.band
        tc == left.code = "tcAny" \/ right.code = "tcAny" \/ left.code = right.code
    IN  ot /\ cb /\ tc

\* matchMetaData with the fault of testing every field whatever the flags
matchMetaDataAllFields(left, right, flagBits) ==
    LET diffSec == right.transmitTime - left.transmitTime
    IN  /\ (IF diffSec < 0 THEN -diffSec ELSE diffSec) <= TimeTolerance
        /\ left.satSys = right.satSys
        /\ ObsIDEqual(left.obsID, right.obsID)
        /\ left.rxID = right.rxID
        /\ left.navID = right.navID

\* PackedNavBits::matchMetaData
matchMetaData(left, right, flagBits) ==
    LET diffSec == right.transmitTime - left.transmitTime
    IN  /\ "mmTIME" \in flagBits =>
              (IF diffSec < 0 THEN -diffSec ELSE diffSec) <= TimeTolerance
        /\ "mmSAT" \in flagBits => left.satSys = right.satSys
        /\ "mmOBS" \in flagBits => ObsIDEqual(left.obsID, right.obsID)
        /\ "mmRX" \in flagBits => left.rxID = right.rxID
        /\ "mmNAV" \in flagBits => left.navID = right.navID

\* PackedNavBits::matchMetaData, called
matchMetaDataCalled(o, other, flagBits) ==
    /\ Running
    /\ Observes([Observed("matchMetaData", o, other, 0, 0, 0)
                    EXCEPT !.flagBits = flagBits,
                           !.bret = matchMetaData(pnb[o], pnb[other], flagBits)])

\* whether matchBits reads a cell that does not exist
matchBitsOutside(left, right, startBitA, endBitA) ==
    /\ left.bits.size = right.bits.size
    /\ \E i \in matchBitsRange(left, startBitA, endBitA) :
          i < 0 \/ i >= left.bits.size

\* PackedNavBits::operator==: match(right) with the defaults of match, all
\* the metadata and all the bits (startBit 0, endBit -1, every flag).  match
\* returns false without a look at the bits when the metadata do not match.
operatorEqual(o, other) ==
    LET rec   == [Observed("operator==", o, other, 0, 0, 0)
                     EXCEPT !.flagBits = MatchFlags]
        left  == pnb[o]
        right == pnb[other]
    IN  /\ Running
        /\ IF ~matchMetaData(left, right, MatchFlags)
           THEN Observes([rec EXCEPT !.bret = FALSE])
           ELSE IF matchBitsOutside(left, right, 0, -1)
           THEN \/ \E b \in BOOLEAN : Observes([rec EXCEPT !.bret = b, !.oob = TRUE])
                \/ Observes([rec EXCEPT !.err = "crash", !.oob = TRUE])
           ELSE Observes([rec EXCEPT !.bret = matchBits(left, right, 0, -1)])

\* the cells the loop of copyBits goes through: from startBit to finalBit,
\* which is endBit, or bits_used - 1 when endBit is -1
copyBitsRange(p, startBit, endBit) ==
    startBit .. (IF endBit = -1 THEN p.bits_used - 1 ELSE endBit)

\* PackedNavBits::copyBits, the object after its loop: bits[i] = from.bits[i]
\* for every i of the range, with no check against either bits.size().  A
\* cell that from does not have is read all the same, and junk is the set of
\* those that the read gave as true; a write to a cell that does not exist
\* is lost.
copyBitsFrom(p, from, startBit, endBit, junk) ==
    LET range == copyBitsRange(p, startBit, endBit)
        read  == {i \in range : i \in from.bits.ones} \cup junk
    IN  [p EXCEPT !.bits.ones =
                     {i \in (@ \ range) \cup read : 0 <= i /\ i < p.bits.size}]

\* PackedNavBits::copyBits
copyBits(o, other, startBit, endBit) ==
    LET rec       == [Called("copyBits", o, {}, DoubleZero, 0, 0)
                         EXCEPT !.other = other, !.start = startBit,
                                !.endBit = endBit]
        p         == pnb[o]
        from      == pnb[other]
        range     == copyBitsRange(p, startBit, endBit)
        unread    == {i \in range : i < 0 \/ i >= from.bits.size}
        unwritten == {i \in range : i < 0 \/ i >= p.bits.size}
        oob       == unread # {} \/ unwritten # {}
    IN  /\ Running
        /\ IF p.bits_used # from.bits_used THEN Throws(rec)
           ELSE \/ \E junk \in SUBSET (unread \ unwritten) :
                      Returns(rec, copyBitsFrom(p, from, startBit, endBit, junk), oob)
                \/ oob /\ Crashes(rec)

\* PackedNavBits::PackedNavBits(const PackedNavBits& right), the object it
\* makes: right's metadata and bits_used, and bits, which starts with no
\* cell, resized to bits_used and given right's cells below bits_used.  A
\* cell that right does not have is read all the same, and junk is the set
\* of those that the read gave as true.
copyOf(right, junk) ==
    [right EXCEPT !.bits = [size |-> right.bits_used,
                            ones |-> {i \in right.bits.ones : i < right.bits_used}
                                         \cup junk]]

\* PackedNavBits::clone: new PackedNavBits(*this), the copy taking the place
\* of object o
clone(o, other) ==
    LET rec    == [Called("clone", o, {}, DoubleZero, 0, 0) EXCEPT !.other = other]
        right  == pnb[other]
        unread == {i \in 0 .. (right.bits_used - 1) : i >= right.bits.size}
    IN  /\ Running
        /\ other # o
        /\ \/ \E junk \in SUBSET unread : Returns(rec, copyOf(right, junk), unread # {})
           \/ unread # {} /\ Crashes(rec)

---------------------------------------------------------------------------
(* Strings.  A string is the sequence of its characters' codes, each an    *)
(* unsigned char.                                                          *)

\* int CHAR_SIZE = 8
CHAR_SIZE == 8

\* uint64_t space = 0x00000020
space == 32

\* the test of addString with the fault of '0' <= ch && ch <= '9'
validUpToNine(ch) ==
    \/ 65 <= ch /\ ch <= 90
    \/ 48 <= ch /\ ch <= 57
    \/ ch = 32 \/ ch = 34 \/ ch = 39 \/ ch = 43
    \/ 45 <= ch /\ ch <= 47
    \/ ch = 248

\* the test of addString: 'A'..'Z', '0'..':', ' ', '"', '\'', '+',
\* '-'..'/' and 0xF8
valid(ch) ==
    \/ 65 <= ch /\ ch <= 90
    \/ 48 <= ch /\ ch <= 58
    \/ ch = 32 \/ ch = 34 \/ ch = 39 \/ ch = 43
    \/ 45 <= ch /\ ch <= 47
    \/ ch = 248

\* numToCopy of addString: numChars when the string is not shorter, and its
\* length otherwise
numToCopy(String, numChars) ==
    IF numChars < Len(String) THEN numChars
    ELSE IF numChars > Len(String) THEN Len(String)
    ELSE numChars

\* numPadBlanks with the fault of never padding
numPadBlanksNone(String, numChars) == 0

\* numPadBlanks of addString
numPadBlanks(String, numChars) ==
    IF numChars > Len(String) THEN numChars - numToCopy(String, numChars) ELSE 0

\* the first loop of addString from its i-th character (counted from 1) up
\* to the n-th: the object, whether a cell outside the storage was written,
\* and whether a character was not valid, which ends the loop at once
RECURSIVE addStringChars(_, _, _, _, _)
addStringChars(p, String, i, n, oob) ==
    IF i > n THEN [obj |-> p, oob |-> oob, err |-> "none"]
    ELSE IF ~valid(String[i]) THEN [obj |-> p, oob |-> oob, err |-> "InvalidParameter"]
    ELSE addStringChars(addUint64_t(p, FromNat(String[i]), CHAR_SIZE), String, i + 1, n,
                        oob \/ ~InStorage(p, p.bits_used, CHAR_SIZE))

\* the second loop of addString: n blanks from the i-th on
RECURSIVE addStringBlanks(_, _, _)
addStringBlanks(copied, i, n) ==
    IF i > n THEN copied
    ELSE addStringBlanks(
            [copied EXCEPT !.obj = addUint64_t(@, FromNat(space), CHAR_SIZE),
                           !.oob = @ \/ ~InStorage(copied.obj, copied.obj.bits_used,
                                                  CHAR_SIZE)],
            i + 1, n)

\* PackedNavBits::addString
addString(o, String, numChars) ==
    LET rec    == [Called("addString", o, {}, DoubleZero, numChars, 0)
                      EXCEPT !.chars = String]
        copied == addStringChars(pnb[o], String, 1, numToCopy(String, numChars), FALSE)
        padded == addStringBlanks(copied, 1, numPadBlanks(String, numChars))
    IN  /\ Running
        /\ IF copied.err = "InvalidParameter"
           THEN \/ ThrowsHaving(rec, copied.obj, copied.oob)
                \/ copied.oob /\ Crashes(rec)
           ELSE \/ Returns(rec, padded.obj, padded.oob)
                \/ padded.oob /\ Crashes(rec)

\* char ch = (char) temp: the code that the low eight bits of temp make
RECURSIVE CharOf(_)
CharOf(temp) ==
    LET low == {b \in temp : b < CHAR_SIZE}
    IN  IF low = {} THEN 0 ELSE 2 ^ Max(low) + CharOf(low \ {Max(low)})

\* PackedNavBits::asString, what it returns when it does not throw: a space,
\* which out starts as, and then the numChars characters
asString(p, startBit, numChars) ==
    <<space>> \o [i \in 1 .. numChars |->
                    CharOf(asUint64_t(p, startBit + CHAR_SIZE * (i - 1), CHAR_SIZE))]

\* PackedNavBits::asString, called: it throws when one of its calls of
\* asUint64_t does
asStringCalled(o, startBit, numChars) ==
    LET rec == Observed("asString", o, o, startBit, numChars, 0)
    IN  /\ Running
        /\ IF \E i \in 1 .. numChars :
                 asUint64_t_throws(pnb[o], startBit + CHAR_SIZE * (i - 1), CHAR_SIZE)
           THEN Observes([rec EXCEPT !.err = "InvalidParameter"])
           ELSE Observes([rec EXCEPT !.sret = asString(pnb[o], startBit, numChars)])

---------------------------------------------------------------------------
(* Text output and input.                                                  *)

\* the bits of a word that one hexadecimal digit stands for
HexBits == 4

\* the bits and the hexadecimal digits of the uint32_t word written and read
HalfWordBits == 32

HexWidth == 8

\* << hex << setw(8) << setfill('0') of a uint32_t: its eight digits, the
\* most significant first
HexDigits(word) ==
    [k \in 1 .. HexWidth |->
        LET lo == HexBits * (HexWidth - k)
        IN  (IF lo \in word THEN 1 ELSE 0) + (IF lo + 1 \in word THEN 2 ELSE 0)
              + (IF lo + 2 \in word THEN 4 ELSE 0) + (IF lo + 3 \in word THEN 8 ELSE 0)]

\* PackedNavBits::outputPackedBits: the text written for the cells below
\* bits.size(), numBitsPerWord of them to a word, the last word moved left
\* by 32 less the number of its cells.  Each word follows the delimiter and
\* a space; a newline follows every numPerLine-th word that is not the last
\* cell's, and nothing follows the last word.
outputPackedBits(p, numPerLine, numBitsPerWord) ==
    LET size    == p.bits.size
        whole   == size \div numBitsPerWord
        partial == size % numBitsPerWord
        word(k) == {i \in Field(p, (k - 1) * numBitsPerWord, numBitsPerWord) :
                       i < HalfWordBits}
        rest    == {i \in Shift(Field(p, whole * numBitsPerWord, partial),
                                HalfWordBits - partial) : i < HalfWordBits}
        full    == [k \in 1 .. whole |->
                       Token("0x", HexDigits(word(k)),
                             k % numPerLine = 0 /\ k * numBitsPerWord < size)]
    IN  Text(IF partial > 0 THEN Append(full, Token("0x", HexDigits(rest), FALSE))
             ELSE full,
             FALSE)

\* PackedNavBits::outputPackedBits, called with a separator as delimiter
outputPackedBitsCalled(o, numPerLine, numBitsPerWord) ==
    /\ Running
    /\ Observes([Observed("outputPackedBits", o, o, 0, numBitsPerWord, numPerLine)
                    EXCEPT !.text = outputPackedBits(pnb[o], numPerLine, numBitsPerWord),
                           !.ret = FromNat(pnb[o].bits.size)])

\* the number that the decimal digits at the head of digits, from the i-th
\* on, continue acc to
RECURSIVE DecimalFrom(_, _, _)
DecimalFrom(digits, i, acc) ==
    IF i > Len(digits) \/ digits[i] > 9 THEN acc
    ELSE DecimalFrom(digits, i + 1, 10 * acc + digits[i])

\* StringUtils::asInt of a token: the decimal number at its head, which for
\* a token with a prefix is the 0 before the x
asInt(token) == IF token.prefix # "" THEN 0 ELSE DecimalFrom(token.digits, 1, 0)

\* StringUtils::x2uint of a token of hexadecimal digits with its prefix
x2uint(token) ==
    LET n == Len(token.digits)
    IN  UNION {{HexBits * (n - k) + b :
                   b \in {c \in 0 .. HexBits - 1 : (token.digits[k] \div (2 ^ c)) % 2 = 1}} :
               k \in 1 .. n}

\* (( bitsExpected-1)/32) + 1 in int arithmetic, the quotient going to zero
numWordsExpected(bitsExpected) ==
    IF bitsExpected >= 1 THEN ((bitsExpected - 1) \div HalfWordBits) + 1 ELSE 1

\* the loop of rawBitInput from its i-th turn: the object, whether a cell
\* outside the storage was written, and whether a word was missing or came
\* without 0x or 0X, which ends the loop at once
RECURSIVE rawBitInputWords(_, _, _, _, _)
rawBitInputWords(p, tokens, i, n, oob) ==
    IF i > n THEN [obj |-> p, oob |-> oob, err |-> "none"]
    ELSE IF i + 1 > Len(tokens) \/ tokens[i + 1].prefix \notin {"0x", "0X"}
    THEN [obj |-> p, oob |-> oob, err |-> "InvalidParameter"]
    ELSE rawBitInputWords(addUint64_t(p, x2uint(tokens[i + 1]), HalfWordBits),
                          tokens, i + 1, n,
                          oob \/ ~InStorage(p, p.bits_used, HalfWordBits))

\* PackedNavBits::rawBitInput, given a text whose count is of decimal digits
\* and whose words have at most eight hexadecimal digits.  A word wanted
\* after the last token makes it throw: with a separator at the end of the
\* text none is found, and without one the search starts over at the count,
\* which has no 0x.
rawBitInput(o, inString) ==
    LET rec    == [Called("rawBitInput", o, {}, DoubleZero, 0, 0)
                      EXCEPT !.text = inString]
        tokens == inString.tokens
    IN  /\ Running
        /\ IF tokens = <<>> \/ (Len(tokens) = 1 /\ ~inString.trail)
           THEN Throws(rec)
           ELSE LET bitsExpected == asInt(tokens[1])
                    read == rawBitInputWords(pnb[o], tokens, 1,
                                             numWordsExpected(bitsExpected), FALSE)
                IN  \/ /\ read.err = "InvalidParameter"
                       /\ ThrowsHaving(rec, read.obj, read.oob)
                    \/ /\ read.err = "none"
                       /\ Returns(rec,
                                  [read.obj EXCEPT !.bits_used = bitsExpected,
                                                   !.bits = resize(@, bitsExpected)],
                                  read.oob)
                    \/ read.oob /\ Crashes(rec)

---------------------------------------------------------------------------
(* The numeric codec on one object: a buffer is prepared (inverted, its    *)
(* count of used bits moved, trimmed), one field is packed into it, drawn  *)
(* from the widths and values at the edges of each range, and the field is *)
(* unpacked again.                                                         *)

\* a field may start at a cell up to MaxStart
MaxStart == 1

NumWidths == {1, 4, 54, 55, 64}

Scales == {1, 3}

\* the values v with v / scale at the edges of the unsigned numBits range
UnsignedValues(numBits, scale) ==
    LET quotients == {{}, {0}, {0, 2}, 0 .. (numBits - 1), {numBits}, {numBits - 1}}
        values    == {MagAdd(MagMul(q, scale), FromNat(r)) :
                         q \in quotients, r \in {0, scale - 1}}
    IN  {v \in values : v \subseteq WordPos}

\* the values v with v / scale at the edges of the signed numBits range
SignedValues(numBits, scale) ==
    LET quotients == {{}, {0}, {0, 1}, 0 .. (numBits - 2), {numBits - 1},
                      MagAdd({numBits - 1}, {0})}
        mags      == {MagAdd(MagMul(q, scale), FromNat(r)) :
                         q \in quotients, r \in {0, scale - 1}}
    IN  {ToSigned(FALSE, m) : m \in {x \in mags : x \subseteq WordPos \ {SignBit}}}
        \cup {ToSigned(TRUE, m) : m \in {x \in mags : MagLeq(x, INT64_MIN)}}

UnsignedPacks ==
    UNION {UNION {{<<value, numBits, scale>> :
                      value \in UnsignedValues(numBits, scale)} :
                  scale \in Scales} : numBits \in NumWidths}

SignedPacks ==
    UNION {UNION {{<<value, numBits, scale>> :
                      value \in SignedValues(numBits, scale)} :
                  scale \in Scales} : numBits \in NumWidths}

DoubleWidths == {4, 54}

Exponents == {0, -13}

\* the magnitudes of value / 2^power2: 0, 0.25, the double below 0.5, 0.5,
\* 2.5, 25736.5, 2^52 + 1 and 2^70
DoubleQuotients ==
    {{}, {-2}, (-54) .. (-2), {-1}, {1, -1}, FromNat(25736) \cup {-1}, {52, 0}, {70}}

DoublePacks ==
    {<<Double(neg, Shift(q, power2)), numBits, power2>> :
        neg \in BOOLEAN, q \in DoubleQuotients, numBits \in DoubleWidths,
        power2 \in Exponents}

\* angles: 0 and plus or minus PI, PI/2, by their counts of semicircles
SemiCirclePacks ==
    {<<Double(neg, m), 4, power2>> :
        neg \in BOOLEAN, m \in {{}, {0}, {-1}}, power2 \in {0, -2}}

\* the calls that prepare a buffer, in the order the codec makes them
Preparations == <<"none", "setSatID", "invert", "reset_num_bits", "trimsize">>

\* the buffer has been prepared up to a call before the k-th preparation
PreparedBefore(k) == \E j \in 1 .. (k - 1) : last.op = Preparations[j]

\* the buffer is being prepared: nothing has been packed into it
Preparing == PreparedBefore(Len(Preparations) + 1)

IntegerPacks == {"addUnsignedLong", "addLong"}

DoublePackOps == {"addUnsignedDouble", "addSignedDouble", "addDoubleSemiCircles"}

\* the last call packed a numeric field and returned, and nothing has been
\* unpacked since
Packed ==
    last.op \in IntegerPacks \cup DoublePackOps /\ last.err = "none" /\ out.op = "none"

\* the field was packed with an integer scale
PackedInteger == Packed /\ last.op \in IntegerPacks

\* the field was packed with a power of two as its scale
PackedDouble == Packed /\ last.op \in DoublePackOps

NextNum ==
    \/ PreparedBefore(2) /\ setSatID("a", 1)
    \/ PreparedBefore(3) /\ invert("a")
    \/ PreparedBefore(4) /\ \E n \in 0 .. MaxStart : reset_num_bits("a", n)
    \/ PreparedBefore(5) /\ trimsize("a")
    \/ Preparing /\ \E c \in UnsignedPacks : addUnsignedLong("a", c[1], c[2], c[3])
    \/ Preparing /\ \E c \in SignedPacks : addLong("a", c[1], c[2], c[3])
    \/ Preparing /\ \E c \in DoublePacks : addUnsignedDouble("a", c[1], c[2], c[3])
    \/ Preparing /\ \E c \in DoublePacks : addSignedDouble("a", c[1], c[2], c[3])
    \/ Preparing /\ \E c \in SemiCirclePacks : addDoubleSemiCircles("a", c[1], c[2], c[3])
    \/ Packed /\ asUint64("a", last.start, last.numBits)
    \/ Packed /\ signExtend("a", last.start, last.numBits)
    \/ PackedInteger /\ asUnsignedLong("a", last.start, last.numBits, last.scale)
    \/ PackedInteger /\ asLong("a", last.start, last.numBits, last.scale)
    \/ PackedDouble /\ asUnsignedDouble("a", last.start, last.numBits, last.scale)
    \/ PackedDouble /\ asSignedDouble("a", last.start, last.numBits, last.scale)
    \/ PackedDouble /\ asDoubleSemiCircles("a", last.start, last.numBits, last.scale)
    \/ Packed /\ asBool("a", last.start)

SpecNum == Init /\ [][NextNum]_vars

---------------------------------------------------------------------------
(* The buffer machine: two objects, small fields, every structural         *)
(* operation, and every decoder on ranges inside and outside what is used. *)

\* the mutating calls of a run of the buffer machine
MaxOps == 2

\* <<value, numBits, scale>>: a bit, 2 in one bit (refused), 5 in three bits
SmallPacks == {<<{0}, 1, 1>>, <<{1}, 1, 1>>, <<{0, 2}, 3, 1>>}

\* <<startBit, numBits>>: the first cell, cells 1 to 3, the cell after the
\* last of a full-sized storage
DecodeRanges == {<<0, 1>>, <<1, 3>>, <<Capacity, 1>>}

Building == calls < MaxOps

\* nothing has been observed since the last mutating call
Unobserved == out.op = "none"

Next ==
    \/ Building /\ \E o \in {"a", "b"}, c \in SmallPacks :
          addUnsignedLong(o, c[1], c[2], c[3])
    \/ Building /\ \E o \in {"a", "b"}, n \in {1, Capacity} : reset_num_bits(o, n)
    \/ Building /\ \E o \in {"a", "b"} : trimsize(o)
    \/ Building /\ \E o \in {"a", "b"} : clearBits(o)
    \/ Building /\ \E o \in {"a", "b"} : invert(o)
    \/ Building /\ \E o \in {"a", "b"}, other \in {"a", "b"} : addPackedNavBits(o, other)
    \/ Building /\ \E o \in {"a", "b"} : setSatID(o, 1)
    \/ Building /\ \E o \in {"a", "b"} : setObsID(o, RangeL1CA)
    \/ Building /\ \E o \in {"a", "b"} : setNavID(o, 1)
    \/ Building /\ \E o \in {"a", "b"} : setRxID(o, "rx")
    \/ Building /\ \E o \in {"a", "b"} : setTime(o, 1)
    \/ Unobserved /\ \E r \in DecodeRanges : asUint64("a", r[1], r[2])
    \/ Unobserved /\ \E r \in DecodeRanges : signExtend("a", r[1], r[2])
    \/ Unobserved /\ \E r \in DecodeRanges : asUnsignedLong("a", r[1], r[2], 1)
    \/ Unobserved /\ \E r \in DecodeRanges : asLong("a", r[1], r[2], 1)
    \/ Unobserved /\ \E r \in DecodeRanges : asUnsignedDouble("a", r[1], r[2], 0)
    \/ Unobserved /\ \E r \in DecodeRanges : asSignedDouble("a", r[1], r[2], 0)
    \/ Unobserved /\ \E r \in DecodeRanges : asDoubleSemiCircles("a", r[1], r[2], 0)
    \/ Unobserved /\ \E r \in DecodeRanges : asBool("a", r[1])

Spec == Init /\ [][Next]_vars

---------------------------------------------------------------------------
(* The ordering: three objects, constructed with or without metadata,      *)
(* given a one-bit field of value 1, inverted and trimmed, and compared.    *)

\* the mutating calls of a run of the ordering
MaxOrdOps == 3

NextOrd ==
    \/ calls < MaxOrdOps /\ \E o \in Objs : construct(o, 1, RangeL1CA, 1, "rx", 1)
    \/ calls < MaxOrdOps /\ \E o \in Objs : addUnsignedLong(o, {0}, 1, 1)
    \/ calls < MaxOrdOps /\ \E o \in Objs : invert(o)
    \/ calls < MaxOrdOps /\ \E o \in Objs : trimsize(o)
    \/ Unobserved /\ \E o \in Objs, other \in Objs : operatorLess(o, other)

SpecOrd == Init /\ [][NextOrd]_vars

---------------------------------------------------------------------------
(* The matching: two objects whose metadata and bits are set, trimmed and  *)
(* cleared, and matched on their bits and on their metadata.               *)

\* the mutating calls of a run of the matching
MaxMatchOps == 2

\* the transmit times set: 1 ms and 1.1 ms after the default time
MatchTimes == {TimeTolerance, TimeTolerance + 1}

\* the ObsIDs set: a range observation, and one of any type
MatchObsIDs == {RangeL1CA, ObsID("otAny", "cbL1", "tcCA")}

\* <<startBit, endBit>>: everything, a start after the end, both beyond the
\* storage
MatchRanges == {<<0, -1>>, <<1, 0>>, <<Capacity, Capacity>>}

\* the flags given: none, each alone, all
MatchFlagSets == {{}, MatchFlags} \cup {{f} : f \in MatchFlags}

Matching == calls < MaxMatchOps

NextMatch ==
    \/ Matching /\ \E o \in {"a", "b"}, t \in MatchTimes : setTime(o, t)
    \/ Matching /\ \E o \in {"a", "b"} : setSatID(o, 1)
    \/ Matching /\ \E o \in {"a", "b"}, id \in MatchObsIDs : setObsID(o, id)
    \/ Matching /\ \E o \in {"a", "b"} : setRxID(o, "rx")
    \/ Matching /\ \E o \in {"a", "b"} : setNavID(o, 1)
    \/ Matching /\ \E o \in {"a", "b"} : addUnsignedLong(o, {0}, 1, 1)
    \/ Matching /\ \E o \in {"a", "b"} : invert(o)
    \/ Matching /\ \E o \in {"a", "b"} : trimsize(o)
    \/ Unobserved /\ \E r \in MatchRanges : matchBitsCalled("a", "b", r[1], r[2])
    \/ Unobserved /\ \E f \in MatchFlagSets : matchMetaDataCalled("a", "b", f)

SpecMatch == Init /\ [][NextMatch]_vars

---------------------------------------------------------------------------
(* The text interchange: object a is packed and trimmed and written out,   *)
(* and object b, fresh, packed or cleared, reads what a wrote and texts    *)
(* with and without their count and their words.                           *)

\* the mutating calls of a run of the text interchange
MaxTextOps == 3

\* the decimal count n (below 100) as a token
CountToken(n) == Token("", IF n < 10 THEN <<n>> ELSE <<n \div 10, n % 10>>, FALSE)

\* 0xABCD1234, 0x80000000 and 0XABCD1234 as tokens, and ABCD1234 without
\* its 0x
WordABCD1234 == Token("0x", <<10, 11, 12, 13, 1, 2, 3, 4>>, FALSE)

Word80000000 == Token("0x", <<8, 0, 0, 0, 0, 0, 0, 0>>, FALSE)

UpperABCD1234 == Token("0X", <<10, 11, 12, 13, 1, 2, 3, 4>>, FALSE)

BareABCD1234 == Token("", <<10, 11, 12, 13, 1, 2, 3, 4>>, FALSE)

\* the texts read: nothing but separators; a count of 0 alone, with and
\* without a separator after it, and with a word; 32 bits with their word,
\* without it, with a word that lacks 0x and with one in 0X; 4 bits of a
\* word; 33 bits with two words and with one
Texts ==
    {Text(<<>>, TRUE),
     Text(<<CountToken(0)>>, FALSE),
     Text(<<CountToken(0)>>, TRUE),
     Text(<<CountToken(0), WordABCD1234>>, FALSE),
     Text(<<CountToken(32), WordABCD1234>>, FALSE),
     Text(<<CountToken(32)>>, TRUE),
     Text(<<CountToken(32), BareABCD1234>>, FALSE),
     Text(<<CountToken(32), UpperABCD1234>>, TRUE),
     Text(<<CountToken(4), WordABCD1234>>, FALSE),
     Text(<<CountToken(33), WordABCD1234, Word80000000>>, FALSE),
     Text(<<CountToken(33), WordABCD1234>>, FALSE)}

\* <<value, numBits>>: the bit 1, and 0xABCD1234 in 32 bits
TextPacks == {<<{0}, 1>>, <<x2uint(WordABCD1234), HalfWordBits>>}

Texting == calls < MaxTextOps

NextText ==
    \/ Texting /\ \E o \in {"a", "b"}, c \in TextPacks : addUnsignedLong(o, c[1], c[2], 1)
    \/ Texting /\ \E o \in {"a", "b"} : trimsize(o)
    \/ Texting /\ clearBits("b")
    \/ Texting /\ \E t \in Texts : rawBitInput("b", t)
    \/ Texting /\ out.op = "outputPackedBits" /\ rawBitInput("b", out.text)
    \/ Unobserved /\ \E n \in {1, 4} : outputPackedBitsCalled("a", n, HalfWordBits)
    \/ Unobserved /\ asUint64("b", 0, HalfWordBits)

SpecText == Init /\ [][NextText]_vars

---------------------------------------------------------------------------
(* The strings on one object: a buffer is prepared as for the numeric      *)
(* codec, one string is packed into it, of characters on both sides of     *)
(* every edge of the valid set, and the string is unpacked again.          *)

\* "HI", "HELLO", "H!I", "HEL!O" and the empty string
HI == <<72, 73>>

HELLO == <<72, 69, 76, 76, 79>>

\* the characters at the edges of the valid set and beside them
EdgeChars ==
    {31, 32, 33, 34, 35, 38, 39, 40, 42, 43, 44, 45, 46, 47, 48, 57, 58, 59,
     64, 65, 90, 91, 97, 247, 248, 249}

Strings ==
    {<<>>, HI, HELLO, <<72, 33, 73>>, <<72, 69, 76, 33, 79>>}
        \cup {<<72, ch>> : ch \in EdgeChars}

\* the numbers of characters asked for
NumChars == {0, 1, 2, 3, 4}

\* the last call packed a string and returned, and nothing has been
\* unpacked since
PackedString == last.op = "addString" /\ last.err = "none" /\ out.op = "none"

NextStr ==
    \/ PreparedBefore(2) /\ setSatID("a", 1)
    \/ PreparedBefore(3) /\ invert("a")
    \/ PreparedBefore(4) /\ \E n \in 0 .. MaxStart : reset_num_bits("a", n)
    \/ PreparedBefore(5) /\ trimsize("a")
    \/ Preparing /\ \E String \in Strings, n \in NumChars : addString("a", String, n)
    \/ PackedString /\ asStringCalled("a", last.start, last.numBits)
    \/ PackedString /\ asUint64("a", last.start, CHAR_SIZE)

SpecStr == Init /\ [][NextStr]_vars

---------------------------------------------------------------------------
(* The editing: two objects are packed, their counts of used bits moved,   *)
(* one is appended to the other, and fields of the first are overwritten.  *)

\* the mutating calls of a run of the editing
MaxEditOps == 3

\* the counts reset_num_bits is given: a field of 54 bits, all the cells
EditCounts == {54, Capacity}

\* <<value, startBit, numBits, scale>>: a bit; 2 in one bit (refused); 5 in
\* the three cells from 1; 2^54 in 54 bits; 3 by the scale 3 in a bit; a bit
\* in the last cell
Inserts ==
    {<<{0}, 0, 1, 1>>, <<{1}, 0, 1, 1>>, <<{0, 2}, 1, 3, 1>>, <<{54}, 0, 54, 1>>,
     <<{0, 1}, 0, 1, 3>>, <<{0}, Capacity - 1, 1, 1>>}

Editing == calls < MaxEditOps

NextEdit ==
    \/ Editing /\ \E o \in {"a", "b"}, c \in SmallPacks :
          addUnsignedLong(o, c[1], c[2], c[3])
    \/ Editing /\ \E o \in {"a", "b"}, n \in EditCounts : reset_num_bits(o, n)
    \/ Editing /\ \E o \in {"a", "b"} : invert(o)
    \/ Editing /\ setSatID("a", 1)
    \/ Editing /\ \E o \in {"a", "b"}, other \in {"a", "b"} : addPackedNavBits(o, other)
    \/ Editing /\ \E c \in Inserts : insertUnsignedLong("a", c[1], c[2], c[3], c[4])
    \/ Unobserved /\ asUint64("a", 0, 3)

SpecEdit == Init /\ [][NextEdit]_vars

---------------------------------------------------------------------------
(* The copying: two objects are packed, inverted, trimmed and cleared,     *)
(* their counts of used bits moved, and the cells of one are copied into   *)
(* the other.                                                              *)

\* the mutating calls of a run of the copying
MaxCopyOps == 3

\* the counts reset_num_bits is given
CopyCounts == {1, 3}

\* <<startBit, endBit>>: all the used cells; the first two cells; cells 1 to
\* 3; a start before the first cell; the last cell and the one after it
CopyRanges == {<<0, -1>>, <<0, 1>>, <<1, 3>>, <<-1, 0>>, <<Capacity - 1, Capacity>>}

Copying == calls < MaxCopyOps

NextCopy ==
    \/ Copying /\ \E o \in {"a", "b"}, c \in SmallPacks :
          addUnsignedLong(o, c[1], c[2], c[3])
    \/ Copying /\ \E o \in {"a", "b"}, n \in CopyCounts : reset_num_bits(o, n)
    \/ Copying /\ \E o \in {"a", "b"} : trimsize(o)
    \/ Copying /\ \E o \in {"a", "b"} : clearBits(o)
    \/ Copying /\ \E o \in {"a", "b"} : invert(o)
    \/ Copying /\ setSatID("a", 1)
    \/ Copying /\ \E o \in {"a", "b"}, other \in {"a", "b"}, r \in CopyRanges :
          copyBits(o, other, r[1], r[2])
    \/ Unobserved /\ asUint64("a", 0, 3)
    \/ Unobserved /\ \E n \in {0, Capacity} : asBool("a", n)

SpecCopy == Init /\ [][NextCopy]_vars

---------------------------------------------------------------------------
(* The equality: objects a and b are given a bit, inverted, trimmed,       *)
(* cleared and cloned from each other, and are compared with each other    *)
(* and with object c, which stays as constructed, decoded and written out. *)

\* the mutating calls of a run of the equality
MaxEqOps == 3

Comparing == calls < MaxEqOps

NextEq ==
    \/ Comparing /\ \E o \in {"a", "b"} : addUnsignedLong(o, {0}, 1, 1)
    \/ Comparing /\ \E o \in {"a", "b"} : invert(o)
    \/ Comparing /\ \E o \in {"a", "b"} : trimsize(o)
    \/ Comparing /\ \E o \in {"a", "b"} : clearBits(o)
    \/ Comparing /\ \E o \in {"a", "b"}, n \in {0, 1} : reset_num_bits(o, n)
    \/ Comparing /\ \E o \in {"a", "b"} : setSatID(o, 1)
    \/ Comparing /\ \E o \in {"a", "b"}, other \in {"a", "b"} : clone(o, other)
    \/ Unobserved /\ \E o \in {"a", "b"}, other \in Objs : operatorEqual(o, other)
    \/ Unobserved /\ \E o \in Objs, other \in Objs : operatorLess(o, other)
    \/ Unobserved /\ \E o \in {"a", "b"}, other \in Objs :
          matchBitsCalled(o, other, 0, -1)
    \/ Unobserved /\ \E o \in {"a", "b"} : outputPackedBitsCalled(o, 4, HalfWordBits)
    \/ Unobserved /\ \E o \in {"a", "b"} : asUint64(o, 0, 1)

SpecEq == Init /\ [][NextEq]_vars

---------------------------------------------------------------------------
(* The split fields: object a is inverted and packed with small fields,    *)
(* and fields split over several ranges of it are unpacked.                *)

\* the mutating calls of a run of the split fields
MaxSplitOps == 3

\* <<value, numBits>>: 0 and 1 in a bit, 2 in two bits, 5 in three, 0 in
\* forty
SplitPacks == {<<{}, 1>>, <<{0}, 1>>, <<{1}, 2>>, <<{0, 2}, 3>>, <<{}, 40>>}

\* <<startBits, numBits>>: one range; two ranges of the same width and of
\* different widths, in the order of the cells, against it and overlapping;
\* three ranges; ranges of 64 bits in all; of 72 bits in all; a range outside
\* the storage
SplitRanges ==
    {<<<<0>>, <<3>>>>,
     <<<<0, 5>>, <<2, 2>>>>,
     <<<<0, 4>>, <<1, 3>>>>,
     <<<<4, 0>>, <<3, 1>>>>,
     <<<<0, 1>>, <<3, 3>>>>,
     <<<<0, 2, 4>>, <<1, 1, 1>>>>,
     <<<<5, 0, 2>>, <<2, 2, 3>>>>,
     <<<<0, 40>>, <<32, 32>>>>,
     <<<<2, 40>>, <<3, 61>>>>,
     <<<<0, 40>>, <<40, 32>>>>,
     <<<<0, Capacity>>, <<1, 1>>>>}

Splitting == calls < MaxSplitOps

NextSplit ==
    \/ Splitting /\ invert("a")
    \/ Splitting /\ \E c \in SplitPacks : addUnsignedLong("a", c[1], c[2], 1)
    \/ Unobserved /\ \E r \in SplitRanges, scale \in Scales :
          asUnsignedLongSplit("a", r[1], r[2], scale)
    \/ Unobserved /\ \E r \in SplitRanges, scale \in Scales :
          asLongSplit("a", r[1], r[2], scale)

SpecSplit == Init /\ [][NextSplit]_vars

---------------------------------------------------------------------------
(* The count of used bits: every operation is called on object a, with     *)
(* object b as the other buffer of those that take one.                    *)

\* the mutating calls of a run of the count of used bits
MaxUsedOps == 2

\* the counts reset_num_bits is given
UsedCounts == {0, 2}

\* the texts read: 4 bits of a word, 33 bits with one word, nothing
UsedTexts ==
    {Text(<<CountToken(4), WordABCD1234>>, FALSE),
     Text(<<CountToken(33), WordABCD1234>>, FALSE),
     Text(<<>>, TRUE)}

\* <<String, numChars>>: "HI" cut to "H" and padded to "HI ", and "H!I"
UsedStrings == {<<HI, 1>>, <<HI, 3>>, <<<<72, 33, 73>>, 3>>}

Counting == calls < MaxUsedOps

NextUsed ==
    \/ Counting /\ \E c \in SmallPacks : addUnsignedLong("a", c[1], c[2], c[3])
    \/ Counting /\ addLong("a", WordNeg({0}), 2, 1)
    \/ Counting /\ addUnsignedDouble("a", DoubleOne, 4, 0)
    \/ Counting /\ addSignedDouble("a", DoubleNeg(DoubleOne), 4, 0)
    \/ Counting /\ addDoubleSemiCircles("a", DoubleOne, 4, 0)
    \/ Counting /\ \E c \in UsedStrings : addString("a", c[1], c[2])
    \/ Counting /\ \E o \in {"a", "b"}, other \in {"a", "b"} : addPackedNavBits(o, other)
    \/ Counting /\ \E o \in {"a", "b"}, n \in UsedCounts : reset_num_bits(o, n)
    \/ Counting /\ clearBits("a")
    \/ Counting /\ \E t \in UsedTexts : rawBitInput("a", t)
    \/ Counting /\ invert("a")
    \/ Counting /\ \E r \in {<<0, -1>>, <<0, 1>>} : copyBits("a", "b", r[1], r[2])
    \/ Counting /\ \E c \in {<<{0}, 0, 1, 1>>, <<{1}, 0, 1, 1>>} :
          insertUnsignedLong("a", c[1], c[2], c[3], c[4])
    \/ Counting /\ trimsize("a")
    \/ Counting /\ clone("a", "b")
    \/ Counting /\ setSatID("a", 1)
    \/ Unobserved /\ asUint64("a", 0, 1)
    \/ Unobserved /\ asLong("a", 0, 2, 1)
    \/ Unobserved /\ asSignedDouble("a", 0, 2, 0)
    \/ Unobserved /\ asStringCalled("a", 0, 1)
    \/ Unobserved /\ asBool("a", 0)
    \/ Unobserved /\ operatorLess("a", "b")
    \/ Unobserved /\ operatorEqual("a", "b")
    \/ Unobserved /\ matchBitsCalled("a", "b", 0, -1)
    \/ Unobserved /\ matchMetaDataCalled("a", "b", MatchFlags)
    \/ Unobserved /\ outputPackedBitsCalled("a", 4, HalfWordBits)

SpecUsed == Init /\ [][NextUsed]_vars

---------------------------------------------------------------------------
(* The claims about the capacity and the decoders' range check, under Spec. *)

EncodeOps ==
    {"addUnsignedLong", "addLong", "addUnsignedDouble", "addSignedDouble",
     "addDoubleSemiCircles", "addPackedNavBits"}

DecodeOps ==
    {"asUint64_t", "SignExtend", "asUnsignedLong", "asLong", "asUnsignedDouble",
     "asSignedDouble", "asDoubleSemiCircles", "asBool"}

\* C1: bitsUsed of every buffer is between 0 and the capacity, and an encode
\* call whose field would take bitsUsed past the capacity is rejected with an
\* error instead of being applied.
C1_WithinCapacity ==
    /\ \A o \in Objs : pnb[o].bits_used \in 0 .. Capacity
    /\ (last.op \in EncodeOps /\ last.start + last.numBits > Capacity)
          => last.err = "InvalidParameter"

\* C2: a decode call whose range [start, start+numBits) is not inside
\* [0, bitsUsed) fails with an error and returns no value.
C2_DecodeInsideUsed ==
    (/\ out.op \in DecodeOps
     /\ ~(0 <= out.start /\ out.start + out.numBits <= pnb[out.obj].bits_used))
        => out.err = "InvalidParameter"

---------------------------------------------------------------------------
(* The claims about the numeric codec, under SpecNum.                      *)

\* the metadata of an object
Metadata(p) ==
    [satSys |-> p.satSys, obsID |-> p.obsID, navID |-> p.navID, rxID |-> p.rxID,
     transmitTime |-> p.transmitTime, parityStatus |-> p.parityStatus,
     xMitCoerced |-> p.xMitCoerced]

\* C3: a numeric encode call that is rejected leaves the buffer exactly as it
\* was (bitsUsed, every cell, the metadata), and one that succeeds changes
\* only the cells [oldBitsUsed, oldBitsUsed+numBits) and adds exactly numBits
\* to bitsUsed.
C3_RejectedOrAppended ==
    last.op \in IntegerPacks \cup DoublePackOps =>
        LET p     == pnb[last.obj]
            q     == last.pre
            field == q.bits_used .. (q.bits_used + last.numBits - 1)
        IN  /\ last.err = "InvalidParameter" => p = q
            /\ last.err = "none" =>
                  /\ p.bits_used = q.bits_used + last.numBits
                  /\ p.bits.size = q.bits.size
                  /\ p.bits.ones \ field = q.bits.ones \ field
                  /\ Metadata(p) = Metadata(q)

\* C3's case: a scaled signed pack is rejected on a buffer that has a used
\* bit, set cells and metadata of its own
C3_RejectedOnPrepared ==
    /\ last.op = "addSignedDouble"
    /\ last.err = "InvalidParameter"
    /\ last.pre.bits_used = 1
    /\ last.pre.satSys = 1
    /\ 0 \in last.pre.bits.ones

\* |a - b| of two magnitudes
AbsDiff(a, b) == IF MagLeq(b, a) THEN MagSub(a, b) ELSE MagSub(b, a)

InSignedRange(v, numBits) ==
    IF IsNegative(v) THEN MagLeq(WordAbs(v), {numBits - 1})
    ELSE MagLess(v, {numBits - 1})

\* C5: for numBits in [1,64] and v in [-2^(numBits-1), 2^(numBits-1)-1],
\* packSigned(v, numBits, 1) is accepted and stores the numBits-bit two's
\* complement of v MSB-first, signExtend of the field returns v and
\* unpackSigned(start, numBits, 1) returns v.
C5_TwosComplement ==
    (/\ last.op = "addLong"
     /\ last.scale = 1
     /\ last.err # "crash"
     /\ InSignedRange(last.value, last.numBits)) =>
        /\ last.err = "none"
        /\ InStorage(pnb[last.obj], last.start, last.numBits) =>
              Field(pnb[last.obj], last.start, last.numBits)
                  = {i \in last.value : i < last.numBits}
        /\ (out.op \in {"SignExtend", "asLong"} /\ out.err = "none")
              => out.ret = last.value

\* C6: for numBits in [1,63], packUnsigned fails exactly when value/scale is
\* above 2^numBits - 1; packUnsigned(2^numBits, numBits, 1) fails.
C6_UnsignedRangeChecked ==
    (last.op = "addUnsignedLong" /\ last.err # "crash" /\ last.numBits < WordBits) =>
        (last.err = "InvalidParameter"
            <=> MagLess(0 .. (last.numBits - 1), MagDiv(last.value, last.scale)))

\* C7: for numBits in [1,64], packSigned fails exactly when value/scale is
\* outside [-2^(numBits-1), 2^(numBits-1)-1].
C7_SignedRangeChecked ==
    (last.op = "addLong" /\ last.err # "crash") =>
        (last.err = "InvalidParameter"
            <=> ~InSignedRange(SignedDiv(last.value, last.scale), last.numBits))

\* |x - y| of two doubles, exactly
Distance(x, y) ==
    IF x.neg = y.neg THEN AbsDiff(x.mag, y.mag) ELSE MagAdd(x.mag, y.mag)

\* C8: packSignedScaled stores value / 2^exponent rounded half away from
\* zero, and unpackSignedScaled of the field returns a value within
\* 2^exponent / 2 of the original.
C8_RoundedHalfAway ==
    (last.op = "addSignedDouble" /\ last.err = "none") =>
        LET q       == Shift(last.dvalue.mag, 0 - last.scale)
            rounded == Trunc(MagAdd(q, {-1}))
        IN  /\ InStorage(pnb[last.obj], last.start, last.numBits) =>
                  SignExtend(pnb[last.obj], last.start, last.numBits)
                      = ToSigned(last.dvalue.neg, rounded)
            /\ (out.op = "asSignedDouble" /\ out.err = "none") =>
                  MagLeq(Distance(out.dret, last.dvalue), {last.scale - 1})

---------------------------------------------------------------------------
(* The claims about the ordering, under SpecOrd.                           *)

\* the cells below bitsUsed that are set
UsedCells(p) == {i \in p.bits.ones : i < p.bits_used}

\* x before y lexicographically, MSB first, for two sets of set cells
LexLess(x, y) == SymDiff(x, y) # {} /\ Min(SymDiff(x, y)) \in y

\* C9: for buffers of equal bitsUsed lessThan holds exactly when the cells
\* [0, bitsUsed) of the first are lexicographically (MSB-first) less than those
\* of the second, and for buffers of different bitsUsed the one with the
\* smaller bitsUsed is less, whatever the content and trimmed or not.
C9_OrderedByUsedBits ==
    out.op = "operator<" =>
        LET A == pnb[out.obj]
            B == pnb[out.other]
        IN  out.bret = (IF A.bits_used = B.bits_used
                        THEN LexLess(UsedCells(A), UsedCells(B))
                        ELSE A.bits_used < B.bits_used)

\* metadata other than an object's own
OtherMetadata ==
    {Metadata(PackedNavBits), Metadata(PackedNavBitsOf(1, RangeL1CA, 1, "rx", 1)),
     Metadata([PackedNavBits EXCEPT !.parityStatus = "psPassed"])}

\* object p with the metadata m
WithMetadata(p, m) ==
    [p EXCEPT !.satSys = m.satSys, !.obsID = m.obsID, !.navID = m.navID,
              !.rxID = m.rxID, !.transmitTime = m.transmitTime,
              !.parityStatus = m.parityStatus, !.xMitCoerced = m.xMitCoerced]

\* C10: lessThan is a strict weak order on the reachable buffers:
\* irreflexive, asymmetric, transitive, with incomparability transitive, and
\* its result does not depend on any metadata field.
C10_StrictWeakOrder ==
    LET pairs     == {<<x, y>> : x \in Objs, y \in Objs}
        less      == {xy \in pairs : lessThan(pnb[xy[1]], pnb[xy[2]])}
        lt(x, y)  == <<x, y>> \in less
        inc(x, y) == ~lt(x, y) /\ ~lt(y, x)
    IN  /\ \A x \in Objs : ~lt(x, x)
        /\ \A x, y \in Objs : lt(x, y) => ~lt(y, x)
        /\ \A x, y, z \in Objs : (lt(x, y) /\ lt(y, z)) => lt(x, z)
        /\ \A x, y, z \in Objs : (inc(x, y) /\ inc(y, z)) => inc(x, z)
        /\ out.op = "operator<" =>
              /\ out.bret = lt(out.obj, out.other)
              /\ \A m, n \in OtherMetadata :
                    lessThan(WithMetadata(pnb[out.obj], m),
                             WithMetadata(pnb[out.other], n)) = out.bret

\* C10's case: three buffers in a chain, two of them with different
\* metadata, and a comparison that returned true
C10_ChainCompared ==
    /\ out.op = "operator<"
    /\ out.bret
    /\ \E x, y, z \in Objs :
          /\ lessThan(pnb[x], pnb[y])
          /\ lessThan(pnb[y], pnb[z])
          /\ Metadata(pnb[x]) # Metadata(pnb[y])

---------------------------------------------------------------------------
(* The claims about the matching, under SpecMatch.                         *)

\* x moved into [0, n-1]
Clamped(x, n) == IF x > n - 1 THEN n - 1 ELSE IF x < 0 THEN 0 ELSE x

\* C11: matchBits returns false whenever the two bitsUsed differ, and
\* otherwise, with startBit and endBit clamped into [0, bitsUsed-1] (endBit
\* -1 standing for bitsUsed-1), returns true exactly when the two buffers
\* agree on every cell of the clamped range: no cell from bitsUsed on has a
\* say.
C11_MatchBitsOnUsed ==
    (out.op = "matchBits" /\ out.err = "none") =>
        LET A  == pnb[out.obj]
            B  == pnb[out.other]
            n  == A.bits_used
            lo == Clamped(out.start, n)
            hi == IF out.endBit = -1 THEN n - 1 ELSE Clamped(out.endBit, n)
        IN  out.bret =
               (/\ A.bits_used = B.bits_used
                /\ \A i \in {j \in lo .. hi : 0 <= j /\ j < n} :
                      (i \in A.bits.ones) <=> (i \in B.bits.ones))

\* whether the field that flag f selects matches, the ObsID by eq
FieldMatches(f, A, B, eq(_, _)) ==
    CASE f = "mmTIME" -> /\ B.transmitTime - A.transmitTime <= TimeTolerance
                         /\ A.transmitTime - B.transmitTime <= TimeTolerance
      [] f = "mmSAT"  -> A.satSys = B.satSys
      [] f = "mmOBS"  -> eq(A.obsID, B.obsID)
      [] f = "mmRX"   -> A.rxID = B.rxID
      [] f = "mmNAV"  -> A.navID = B.navID

\* two ObsIDs are the same one
SameObsID(x, y) == x = y

\* C12, as claimed: matchMetadata returns true exactly when every field
\* whose flag is set matches, the times within 0.001 s and the satellite id,
\* observation id, source label and nav type exactly equal; a field whose
\* flag is clear has no say.
C12_ExactMetadata ==
    out.op = "matchMetaData" =>
        out.bret = \A f \in out.flagBits :
                      FieldMatches(f, pnb[out.obj], pnb[out.other], SameObsID)

\* C12, amended: as claimed, but two observation ids match when each of
\* type, band and code is equal in the two or is the wildcard in one.
C12_WildcardObsID ==
    out.op = "matchMetaData" =>
        out.bret = \A f \in out.flagBits :
                      FieldMatches(f, pnb[out.obj], pnb[out.other], ObsIDEqual)

\* C12's case: under the observation flag, an object observed as a range
\* matches one observed as any type
C12_WildcardMatched ==
    /\ out.op = "matchMetaData"
    /\ out.flagBits = {"mmOBS"}
    /\ out.bret
    /\ pnb[out.obj].obsID.type = "otRange"
    /\ pnb[out.other].obsID.type = "otAny"

---------------------------------------------------------------------------
(* The claims about the text interchange, under SpecText.                  *)

\* C13: for a buffer built by pack operations, the text that
\* outputPackedBits writes for it with 32 bits to a word, read by
\* rawBitInput into an empty buffer, is accepted and gives a buffer with the
\* same bitsUsed and the same cells below bitsUsed.
C13_ExportThenImport ==
    (/\ last.op = "rawBitInput"
     /\ last.err # "crash"
     /\ last.obj = "b"
     /\ last.pre.bits_used = 0
     /\ \E n \in {1, 4} : last.text = outputPackedBits(pnb["a"], n, HalfWordBits)) =>
        /\ last.err = "none"
        /\ pnb["b"].bits_used = pnb["a"].bits_used
        /\ UsedCells(pnb["b"]) = UsedCells(pnb["a"])

\* ceil(n/32)
WordsFor(n) == (n + HalfWordBits - 1) \div HalfWordBits

\* C14: after a successful rawBitInput of a text declaring N bits followed
\* by its hex words, bitsUsed is N and the cells [0, N) hold the bits of the
\* words MSB-first in order, the padding of the last word dropped, whatever
\* bitsUsed and content the buffer had before.
C14_ImportedWords ==
    (last.op = "rawBitInput" /\ last.err = "none") =>
        LET N == asInt(last.text.tokens[1])
            p == pnb[last.obj]
        IN  /\ p.bits_used = N
            /\ UsedCells(p) =
                  {i \in UNION {Cells(x2uint(last.text.tokens[k + 1]),
                                      HalfWordBits * (k - 1), HalfWordBits) :
                                k \in 1 .. WordsFor(N)} : i < N}

\* C15: rawBitInput fails on a text with no count, with fewer than
\* ceil(N/32) words after the count N, or with a word that does not start
\* with 0x or 0X, and accepts a text with exactly ceil(N/32) well-formed
\* words, none when N is 0.
C15_MalformedRejected ==
    (last.op = "rawBitInput" /\ last.err # "crash") =>
        LET tokens == last.text.tokens
            need   == IF tokens = <<>> THEN 0 ELSE WordsFor(asInt(tokens[1]))
            words  == {k \in 2 .. Len(tokens) : k <= need + 1}
            bad    == \E k \in words : tokens[k].prefix \notin {"0x", "0X"}
        IN  /\ (tokens = <<>> \/ Len(tokens) - 1 < need \/ bad)
                  => last.err = "InvalidParameter"
            /\ (tokens # <<>> /\ Len(tokens) - 1 = need /\ ~bad)
                  => last.err = "none"

---------------------------------------------------------------------------
(* The claims about the strings, under SpecStr.                            *)

\* the characters that n characters of String from the first are followed
\* by blanks to make: String cut or padded to n characters
CutOrPadded(String, n) ==
    [i \in 1 .. n |-> IF i <= Len(String) THEN String[i] ELSE 32]

\* the cells that the characters of chars set when written from cell lo,
\* eight cells to a character, MSB-first
CharCells(chars, lo) ==
    UNION {Cells(FromNat(chars[i]), lo + 8 * (i - 1), 8) : i \in 1 .. Len(chars)}

\* C16: a packString that succeeds adds 8*numChars to bitsUsed and writes
\* numChars characters of 8 bits MSB-first, the first min(len, numChars)
\* characters of the text and then spaces; the characters of the text after
\* numChars are neither stored nor validated.
C16_CutOrPadded ==
    (last.op = "addString" /\ last.err = "none") =>
        LET p     == pnb[last.obj]
            q     == last.pre
            n     == last.numBits
            field == q.bits_used .. (q.bits_used + 8 * n - 1)
        IN  /\ p.bits_used = q.bits_used + 8 * n
            /\ p.bits.ones \ field = q.bits.ones \ field
            /\ InStorage(q, q.bits_used, 8 * n) =>
                  p.bits.ones \cap field
                      = CharCells(CutOrPadded(last.chars, n), q.bits_used)

\* C16's case: a string is cut and one is padded, behind a bit already used
C16_CutAndPadded ==
    /\ last.op = "addString"
    /\ last.err = "none"
    /\ last.start = 1
    /\ ~last.oob
    /\ \/ last.chars = HELLO /\ last.numBits = 3
       \/ last.chars = HI /\ last.numBits = 4

\* the characters allowed in a string
AllowedChars ==
    (65 .. 90) \cup (48 .. 58) \cup {32, 34, 39, 43, 248} \cup (45 .. 47)

\* C17: when the first character that is not allowed among the first
\* min(len, numChars) of the text is at index k (from 0), packString fails
\* having written the k characters before it and nothing else: bitsUsed has
\* grown by 8k, the cells [old, old+8k) hold those characters, no padding is
\* written and every other cell is unchanged; and it fails for no other
\* character.
C17_PartialWrite ==
    (last.op = "addString" /\ last.err # "crash") =>
        LET p     == pnb[last.obj]
            q     == last.pre
            n     == IF Len(last.chars) < last.numBits THEN Len(last.chars)
                     ELSE last.numBits
            bad   == {i \in 1 .. n : last.chars[i] \notin AllowedChars}
            k     == Min(bad) - 1
            field == q.bits_used .. (q.bits_used + 8 * k - 1)
        IN  /\ last.err = "InvalidParameter" <=> bad # {}
            /\ bad # {} =>
                  /\ p.bits_used = q.bits_used + 8 * k
                  /\ p.bits.size = q.bits.size
                  /\ Metadata(p) = Metadata(q)
                  /\ p.bits.ones \ field = q.bits.ones \ field
                  /\ InStorage(q, q.bits_used, 8 * k) =>
                        p.bits.ones \cap field
                            = CharCells(SubSeq(last.chars, 1, k), q.bits_used)

\* C17's case: the second character is refused after the first was written
C17_SecondRefused ==
    /\ last.op = "addString"
    /\ last.err = "InvalidParameter"
    /\ ~last.oob
    /\ pnb[last.obj].bits_used = last.start + 8
    /\ Len(last.chars) = 2

\* C18: after packString(text, numChars), unpackString of the same start
\* and numChars returns exactly numChars characters, the text cut or padded
\* with spaces, with no character before or after them.
C18_StringRoundTrip ==
    (/\ last.op = "addString"
     /\ last.err = "none"
     /\ out.op = "asString"
     /\ out.err = "none") =>
        out.sret = CutOrPadded(last.chars, last.numBits)

---------------------------------------------------------------------------
(* The claims about the editing, under SpecEdit.                           *)

\* C19: addPackedNavBits with the two bitsUsed together within the capacity
\* makes bitsUsed their sum and the cells [old, sum) the other's cells
\* [0, other.bitsUsed), leaving the cells [0, old) and the metadata as they
\* were; with the sum above the capacity it fails and changes nothing.
C19_AppendedWithinCapacity ==
    (last.op = "addPackedNavBits" /\ last.err # "crash") =>
        LET p     == pnb[last.obj]
            q     == last.pre
            right == pnb[CHOOSE o \in {"a", "b"} : o # last.obj]
            old   == q.bits_used
            sum   == old + right.bits_used
        IN  IF sum <= Capacity
            THEN /\ last.err = "none"
                 /\ p.bits_used = sum
                 /\ {i \in p.bits.ones : old <= i /\ i < sum}
                       = {i + old : i \in UsedCells(right)}
                 /\ {i \in p.bits.ones : i < old} = {i \in q.bits.ones : i < old}
                 /\ Metadata(p) = Metadata(q)
            ELSE last.err = "InvalidParameter" /\ p = q

\* C20: insertUnsignedLong fails and changes nothing when startBit+numBits
\* is above bitsUsed or value/scale is above 2^numBits - 1, and otherwise
\* overwrites exactly the cells [startBit, startBit+numBits) with value/scale
\* MSB-first, leaving bitsUsed, every other cell and the metadata as they
\* were.
C20_PatchedInPlace ==
    (last.op = "insertUnsignedLong" /\ last.err # "crash") =>
        LET p     == pnb[last.obj]
            q     == last.pre
            outv  == MagDiv(last.value, last.scale)
            field == last.start .. (last.start + last.numBits - 1)
        IN  IF \/ last.start + last.numBits > q.bits_used
               \/ MagLess(0 .. (last.numBits - 1), outv)
            THEN last.err = "InvalidParameter" /\ p = q
            ELSE /\ last.err = "none"
                 /\ p.bits.ones \cap field = Cells(outv, last.start, last.numBits)
                 /\ p.bits.ones \ field = q.bits.ones \ field
                 /\ p.bits_used = q.bits_used
                 /\ p.bits.size = q.bits.size
                 /\ Metadata(p) = Metadata(q)

---------------------------------------------------------------------------
(* The claims about copying, inverting and the storage, under SpecCopy.    *)

\* what C21 has a call of copyBits do, from the state before it to the one
\* after it
CopyBitsStep ==
    LET o     == last'.obj
        p     == pnb[o]
        from  == pnb[last'.other]
        q     == pnb'[o]
        range == last'.start ..
                    (IF last'.endBit = -1 THEN p.bits_used - 1 ELSE last'.endBit)
    IN  IF p.bits_used # from.bits_used
        THEN last'.err = "InvalidParameter" /\ pnb' = pnb
        ELSE /\ last'.err = "none"
             /\ \A i \in range : (i \in q.bits.ones) <=> (i \in from.bits.ones)
             /\ \A i \in (0 .. (Capacity - 1)) \ range :
                   (i \in q.bits.ones) <=> (i \in p.bits.ones)
             /\ q.bits_used = p.bits_used
             /\ Metadata(q) = Metadata(p)
             /\ \A x \in Objs \ {o} : pnb'[x] = pnb[x]

\* C21: copyBits fails with an error and changes nothing when the two
\* buffers' bitsUsed differ; otherwise it makes the cells from startBit to
\* endBit (bitsUsed-1 for -1) equal to from's and leaves every other cell,
\* bitsUsed, the metadata and the from buffer as they were.
C21_CopiedInRange ==
    [][(calls' = calls + 1 /\ last'.op = "copyBits") => CopyBitsStep]_vars

\* C23: invert flips every one of the Capacity cells, those from bitsUsed on
\* included, and leaves bitsUsed and the metadata as they were, and a second
\* invert restores the buffer; in every state, whatever trim, clearBits or
\* anything else did to the storage before.
C23_InvertsAllCells ==
    /\ (last.op = "invert" /\ last.err = "none") =>
          /\ pnb[last.obj].bits.ones = (0 .. (Capacity - 1)) \ last.pre.bits.ones
          /\ pnb[last.obj].bits_used = last.pre.bits_used
          /\ Metadata(pnb[last.obj]) = Metadata(last.pre)
    /\ \A o \in Objs : invertBits(invertBits(pnb[o])) = pnb[o]

\* C26: every cell that a call reads or writes is inside the storage: no
\* call indexes bits outside 0 .. bits.size()-1.
C26_InsideStorage == ~last.oob /\ ~out.oob

---------------------------------------------------------------------------
(* The claims about trim, clone and equality, under SpecEq.                *)

\* what operator== returns for two objects when it reads no cell outside
\* their storages
Equals(left, right) ==
    matchMetaData(left, right, MatchFlags) /\ matchBits(left, right, 0, -1)

\* an observing call gave the answer that the same call gives with objects
\* left and right in the place of its two objects
SameAnswer(left, right) ==
    /\ out.op = "operator==" =>
          out.err = "none" /\ out.bret = Equals(left, right)
    /\ out.op = "operator<" => out.bret = lessThan(left, right)
    /\ out.op = "matchBits" =>
          /\ out.err = "none"
          /\ out.bret = matchBits(left, right, out.start, out.endBit)
    /\ out.op = "outputPackedBits" =>
          out.text = outputPackedBits(left, out.scale, out.numBits)
    /\ out.op = "asUint64_t" =>
          /\ (out.err = "InvalidParameter")
                <=> asUint64_t_throws(left, out.start, out.numBits)
          /\ out.err = "none" => out.ret = asUint64_t(left, out.start, out.numBits)

\* the buffer with all the cells of the capacity, those that its storage
\* lacks being false
Untrimmed(p) == [p EXCEPT !.bits.size = Capacity]

\* C22: trim changes neither bitsUsed nor the cells below it, and what is
\* called next on the trimmed buffer (a decode, ==, <, matchBits, the export,
\* an append) gives what it would have given on the buffer untrimmed.
C22_TrimChangesNothing ==
    /\ (last.op = "trimsize" /\ last.err = "none") =>
          LET t       == last.obj
              before  == last.pre
              Was(x)  == IF x = t THEN before ELSE pnb[x]
          IN  /\ pnb[t].bits_used = before.bits_used
              /\ UsedCells(pnb[t]) = UsedCells(before)
              /\ (before.bits.size = Capacity /\ t \in {out.obj, out.other})
                    => SameAnswer(Was(out.obj), Was(out.other))
    /\ (/\ last.op = "addUnsignedLong"
        /\ last.pre.bits.size = last.pre.bits_used
        /\ last.start + last.numBits <= Capacity) =>
          /\ last.err = "none"
          /\ UsedCells(pnb[last.obj])
                = UsedCells(addUint64_t(Untrimmed(last.pre), last.value, last.numBits))

\* C27: a clone has the metadata, the parity status, bitsUsed and the cells
\* below bitsUsed of its original, and compares equal to it: clone ==
\* original and original == clone, and neither is less than the other.
C27_CloneEqualsOriginal ==
    (last.op = "clone" /\ last.err = "none") =>
        LET copy     == pnb[last.obj]
            original == pnb[last.other]
        IN  /\ Metadata(copy) = Metadata(original)
            /\ copy.bits_used = original.bits_used
            /\ UsedCells(copy) = UsedCells(original)
            /\ {out.obj, out.other} = {last.obj, last.other} =>
                  /\ out.op = "operator==" => out.err = "none" /\ out.bret
                  /\ out.op = "operator<" => ~out.bret

\* two buffers agree on the metadata, on bitsUsed and on the cells below it
Agree(p, q) ==
    /\ Metadata(p) = Metadata(q)
    /\ p.bits_used = q.bits_used
    /\ UsedCells(p) = UsedCells(q)

\* C28: a buffer that agrees with one of the two buffers of a comparison or
\* with the buffer of an export on the metadata, on bitsUsed and on the cells
\* below bitsUsed would have given the same answer in its place, whatever its
\* cells from bitsUsed on hold.
C28_StaleCellsUnseen ==
    \A y \in Objs :
        /\ Agree(pnb[y], pnb[out.obj]) => SameAnswer(pnb[y], pnb[out.other])
        /\ (Agree(pnb[y], pnb[out.other]) /\ out.op # "outputPackedBits")
              => SameAnswer(pnb[out.obj], pnb[y])

\* C30: == is reflexive and symmetric, and two buffers that are == are not
\* ordered by <.
C30_EqualityRelation ==
    out.op = "operator==" =>
        LET left  == pnb[out.obj]
            right == pnb[out.other]
        IN  /\ out.err = "none"
            /\ out.obj = out.other => out.bret
            /\ out.bret = Equals(right, left)
            /\ out.bret => ~lessThan(left, right) /\ ~lessThan(right, left)

---------------------------------------------------------------------------
(* The claim about a failed import, under SpecText.                        *)

\* C29: a call of rawBitInput that fails on its input leaves bitsUsed, every
\* cell and the size of the storage as they were before the call.
C29_FailedImportChangesNothing ==
    (last.op = "rawBitInput" /\ last.err = "InvalidParameter") =>
        pnb[last.obj] = last.pre

---------------------------------------------------------------------------
(* The claim about the split fields, under SpecSplit.                      *)

\* the sum of the widths from the i-th on
RECURSIVE WidthFrom(_, _)
WidthFrom(numBits, i) ==
    IF i > Len(numBits) THEN 0 ELSE numBits[i] + WidthFrom(numBits, i + 1)

\* the number whose binary digits are the cells of the ranges, one range
\* after the other, the first range at the top
Concatenated(p, startBits, numBits) ==
    UNION {Shift(Field(p, startBits[i], numBits[i]), WidthFrom(numBits, i + 1)) :
              i \in 1 .. Len(startBits)}

\* C24: a split unpack of ranges of at most 64 bits in all returns scale
\* times the number that the raw bits of the ranges make, concatenated in the
\* order of the array with the first range at the top; the signed unpack
\* reads the concatenation, of the width of all the ranges together, as
\* two's complement.  (A product that a 64-bit word cannot hold is left out.)
C24_SplitConcatenated ==
    (out.op \in {"asUnsignedLong[]", "asLong[]"} /\ out.err = "none") =>
        LET width == WidthFrom(out.numBits, 1)
            bits  == Concatenated(pnb[out.obj], out.start, out.numBits)
            neg   == out.op = "asLong[]" /\ (width - 1) \in bits
            mag   == MagMul(IF neg THEN MagSub({width}, bits) ELSE bits, out.scale)
            fits  == IF out.op = "asLong[]"
                     THEN MagLeq(mag, IF neg THEN INT64_MIN ELSE INT64_MAX)
                     ELSE MagLeq(mag, UINT64_MAX)
        IN  (width <= WordBits /\ fits) => out.ret = ToSigned(neg, mag)

\* a signed unpack of a negative field split over two ranges of different
\* widths has returned
C24_NegativeSplitRead ==
    /\ out.op = "asLong[]"
    /\ out.err = "none"
    /\ Len(out.numBits) = 2
    /\ out.numBits[1] # out.numBits[2]
    /\ WidthFrom(out.numBits, 1) < WordBits
    /\ IsNegative(out.ret)
    /\ out.scale = 3
    /\ Field(pnb[out.obj], out.start[2], out.numBits[2]) # {}

---------------------------------------------------------------------------
(* The claim about the count of used bits, under SpecUsed.                 *)

\* the calls that append: the numeric packs, the string pack and the
\* append of another buffer
AppendOps == IntegerPacks \cup DoublePackOps \cup {"addString", "addPackedNavBits"}

\* the calls that set bitsUsed, and those that make the buffer anew
ResetOps == {"reset_num_bits", "clearBits", "rawBitInput"}

ConstructOps == {"PackedNavBits", "clone"}

\* the bits that the append just made adds: numBits, the 8 bits of each of
\* the numChars characters, the used bits of the buffer appended
AppendedWidth ==
    IF last'.op = "addString" THEN CHAR_SIZE * last'.numBits ELSE last'.numBits

\* what C25 has a step do to the count of used bits of object o
UsedStep(o) ==
    LET p      == pnb[o]
        q      == pnb'[o]
        called == calls' = calls + 1 /\ last'.obj = o
    IN  /\ q.bits_used # p.bits_used =>
              called /\ last'.op \in AppendOps \cup ResetOps \cup ConstructOps
        /\ (called /\ last'.op \in AppendOps /\ last'.err = "none") =>
              q.bits_used = p.bits_used + AppendedWidth
        /\ (called /\ last'.op = "reset_num_bits") =>
              q.bits_used = last'.numBits /\ q.bits = p.bits

\* C25: bitsUsed of a buffer changes only in an append, which when it
\* succeeds adds to it exactly the width appended, or in a reset
\* (reset_num_bits, clearBits, the import); no decode, comparison, export,
\* invert, copyBits, patch or trim changes it, and reset_num_bits(n) sets it
\* to n and changes no cell.
C25_UsedBitsMoves == [][\A o \in Objs : UsedStep(o)]_vars

\* reset_num_bits has moved bitsUsed back over cells that are set
C25_RewoundOverCells ==
    /\ last.op = "reset_num_bits"
    /\ last.numBits < last.pre.bits_used
    /\ pnb[last.obj].bits_used = last.numBits
    /\ \E i \in pnb[last.obj].bits.ones : i >= last.numBits /\ i < last.pre.bits_used

=============================================================================
